---------------------------- MODULE Spec2Model ----------------------------
(***************************************************************************)
(* Model of the statistics engine of src/traitement_ph.py                  *)
(* (StatisticsCalculator) over the record store (DatabaseManager).         *)
(*                                                                         *)
(* Conventions                                                             *)
(*  - A date is the number of days since Monday 2024-01-01, so that        *)
(*    date.weekday() is (d % 7) with 0 = Monday.  The text 'YYYY-MM-DD'    *)
(*    the store holds orders exactly like this number.                     *)
(*  - A parameter value is the text of the store, kept as the number it    *)
(*    parses to; NULL is a key without a row.  seuil_objectif is kept in   *)
(*    hundredths: the text "0.9" is 90.                                    *)
(*  - A value rounded to 2 decimals is kept in hundredths (75.0 is 7500),  *)
(*    a value rounded to 1 decimal in tenths (75.0 is 750).                *)
(*  - The roster is the set of its rows, a name and an active flag each;   *)
(*    nom is UNIQUE in the table.                                          *)
(*  - The engine reads the date of a row as its text: strftime writes it,  *)
(*    strptime parses it.                                                  *)
(*  - id is INTEGER PRIMARY KEY AUTOINCREMENT: sqlite_sequence is the      *)
(*    largest id the table traitements has given out, 0 before the first.  *)
(***************************************************************************)
EXTENDS Integers, Sequences, FiniteSets, TLC

VARIABLES traitements, sqlite_sequence, parametres, archivistes, appel,
          resultat

vars == <<traitements, sqlite_sequence, parametres, archivistes, appel,
          resultat>>

(***************************************************************************)
(* Bounds and input domains                                                *)
(***************************************************************************)
MaxEntries == 2

\* rows of the table once a period has been entered: a year of working
\* days next to the single entries
MaxLignes == 264

\* ids the table traitements has given out
MaxId == 3

\* The numeric domains below are chosen so that the products
\* objectif * seuil_objectif are exact in binary floating point: on them
\* the exact arithmetic of this module and the float arithmetic of the code
\* give the same results.

\* 2024-12-31 (Tue), 2025-01-04 (Sat), 2025-01-06 (Mon)
DatesSaisie == {365, 369, 371}

\* reference dates of a call: 2025-01-04, 2025-01-06
DatesRef == {369, 371}

AnneesRef == {2024, 2025}

\* length of a list given to _jours_ouvres alone
MaxDates == 3

\* periods of the period form, first and last date: the year 2025, the
\* year 2025 without 1 January, a week-end
PeriodesSaisie == {<<366, 730>>, <<367, 730>>, <<369, 370>>}

\* totals of the period form
TotauxPeriode == {261, 1000}

\* years given to _calculer_jours_ouvres_annee alone: every weekday of
\* 1 January with and without 29 February, and two century years
AnneesCalendrier == (1996..2030) \cup {1900, 2100}

Noms == {"AMINATA NDIAYE", "KANI TOURE"}

Comptes == {50, 150}

ObjectifValeurs == {0, 101, 200}

SeuilValeurs == {0, 50, 90, 150}

StockValeurs == {0, 100, 150000}

\* positions of the slider of the parameters page (0.5 to 1.0), in hundredths
SeuilCurseur == {50, 90}

MotsDePasseAdmin == {"ab", "archives2025"}

MotsDePasseApp == {"ab", "CNA2025"}

\* None: the key has no row (no stored number is negative)
NULL == 0 - 1

(***************************************************************************)
(* Config                                                                  *)
(***************************************************************************)
STOCK_INITIAL == 150000

OBJECTIF_JOURNALIER == 200

SEUIL_OBJECTIF == 90

MOT_DE_PASSE_ADMIN == "archives2025"

MOT_DE_PASSE_APP == "CNA2025"

ARCHIVISTES_DEFAULT ==
    {"ABDOU DIATTA", "ALPHONSE K DIOUF", "AMINATA NDIAYE",
     "BERNARD B OGUIKI", "FATIM MBAYE", "JOSEPH M N DIOUF",
     "KANI TOURE", "SANOU WAGUE", "SERIGNE B CISS"}

(***************************************************************************)
(* Calendar                                                                *)
(***************************************************************************)
weekday(d) == d % 7

EstBissextile(a) == (a % 4 = 0 /\ a % 100 # 0) \/ a % 400 = 0

JoursAnnee(a) == IF EstBissextile(a) THEN 366 ELSE 365

\* number of 29 Februaries in the years 1..a
Bissextiles(a) == (a \div 4) - (a \div 100) + (a \div 400)

\* date(a, 1, 1), counted from 2024-01-01
PremierJanvier(a) ==
    365 * (a - 2024) + Bissextiles(a - 1) - Bissextiles(2023)

TrenteEtUnDecembre(a) == PremierJanvier(a) + JoursAnnee(a) - 1

JoursMois(a, m) ==
    IF m = 2 THEN (IF EstBissextile(a) THEN 29 ELSE 28)
    ELSE IF m \in {4, 6, 9, 11} THEN 30 ELSE 31

\* days of the year a before the first of month m
JoursAvantMois(a, m) ==
    <<0, 31, 59, 90, 120, 151, 181, 212, 243, 273, 304, 334>>[m]
        + (IF m > 2 /\ EstBissextile(a) THEN 1 ELSE 0)

\* The text of a date field.  A text made of three numbers joined by '-'
\* has the form "YMD" and carries the numbers; any other text (empty,
\* '06/01/2025', a value that is not a string) has the form "autre".
TexteYMD(a, m, j) == [forme |-> "YMD", a |-> a, m |-> m, j |-> j]

TexteAutre == [forme |-> "autre", a |-> 0, m |-> 0, j |-> 0]

\* d.strftime("%Y-%m-%d") for a date d from 2024-01-01 on
strftime(d) ==
    LET a == CHOOSE x \in 2024..(2024 + d \div 365) :
                 PremierJanvier(x) <= d /\ d < PremierJanvier(x + 1)
        q == d - PremierJanvier(a) + 1
        b == IF EstBissextile(a) THEN 1 ELSE 0
        \* days of the year a before the first of each month, year's end last
        avant == <<0, 31, 59 + b, 90 + b, 120 + b, 151 + b, 181 + b,
                   212 + b, 243 + b, 273 + b, 304 + b, 334 + b, 365 + b>>
        m == CHOOSE x \in 1..12 : avant[x] < q /\ q <= avant[x + 1]
    IN  TexteYMD(a, m, q - avant[m])

\* strptime accepting any day number up to 31 in every month
strptime_SansCalendrier(d_str) ==
    IF /\ d_str.forme = "YMD"
       /\ d_str.a \in 1..9999
       /\ d_str.m \in 1..12
       /\ d_str.j \in 1..31
    THEN [ok |-> TRUE,
          date |-> PremierJanvier(d_str.a)
                     + JoursAvantMois(d_str.a, d_str.m) + d_str.j - 1]
    ELSE [ok |-> FALSE, date |-> 0]

\* datetime.strptime(d_str, "%Y-%m-%d").date(): the date, or not ok when
\* the call raises (ValueError, TypeError)
strptime(d_str) ==
    IF /\ d_str.forme = "YMD"
       /\ d_str.a \in 1..9999
       /\ d_str.m \in 1..12
       /\ d_str.j \in 1..JoursMois(d_str.a, d_str.m)
    THEN [ok |-> TRUE,
          date |-> PremierJanvier(d_str.a)
                     + JoursAvantMois(d_str.a, d_str.m) + d_str.j - 1]
    ELSE [ok |-> FALSE, date |-> 0]

(***************************************************************************)
(* Arithmetic                                                              *)
(***************************************************************************)
Max(a, b) == IF a >= b THEN a ELSE b

\* int(x) of the quotient n/d, d > 0: truncation toward zero
Tronque(n, d) == IF n >= 0 THEN n \div d ELSE -((-n) \div d)

\* Arrondi cutting the decimals off instead of rounding
Arrondi_ParDefaut(n, d) == n \div d

\* round(n/d) to the nearest integer, n >= 0, d > 0, an exact half going
\* to the even neighbour.  (The code rounds a binary float, which on an
\* exact decimal half can fall on either neighbour; the input domains of
\* this module are such that the exact result and the float result agree.)
Arrondi(n, d) ==
    LET q == n \div d
        r == n % d
    IN  IF 2 * r < d THEN q
        ELSE IF 2 * r > d THEN q + 1
        ELSE IF q % 2 = 0 THEN q ELSE q + 1

\* sum(...) of a sequence of numbers, by halves
RECURSIVE Somme(_)
Somme(s) ==
    IF Len(s) = 0 THEN 0
    ELSE IF Len(s) = 1 THEN s[1]
    ELSE Somme(SubSeq(s, 1, Len(s) \div 2))
           + Somme(SubSeq(s, Len(s) \div 2 + 1, Len(s)))

(***************************************************************************)
(* DatabaseManager                                                         *)
(***************************************************************************)
Cles == {"stock_initial", "objectif_journalier", "seuil_objectif",
         "mot_de_passe", "mot_de_passe_app"}

init_default_params ==
    [c \in Cles |->
        IF c = "stock_initial" THEN STOCK_INITIAL
        ELSE IF c = "objectif_journalier" THEN OBJECTIF_JOURNALIER
        ELSE IF c = "seuil_objectif" THEN SEUIL_OBJECTIF
        ELSE IF c = "mot_de_passe" THEN MOT_DE_PASSE_ADMIN
        ELSE MOT_DE_PASSE_APP]

\* the roster init_default_params gives a new database: every default
\* name, active
ArchivistesInitiaux ==
    {[nom |-> n, actif |-> TRUE] : n \in ARCHIVISTES_DEFAULT}

\* obtenir_archivistes(actifs_seulement=True), as a set of names
obtenir_archivistes == {a.nom : a \in {b \in archivistes : b.actif}}

\* obtenir_archivistes(actifs_seulement=False), as a set of rows
obtenir_tous_archivistes == archivistes

obtenir_parametre(cle) == parametres[cle]

\* ParametreOu without the `or defaut`
ParametreOu_SansDefaut(cle, defaut) == obtenir_parametre(cle)

\* the idiom  int(self.db.obtenir_parametre(cle) or defaut)
ParametreOu(cle, defaut) ==
    IF obtenir_parametre(cle) = NULL THEN defaut ELSE obtenir_parametre(cle)

\* The positions I of the table by date_traitement descending, rows of one
\* date in the order of their ids
TriParDate(I) ==
    SortSeq(SelectSeq([k \in 1..Len(traitements) |-> k],
                      LAMBDA i : i \in I),
            LAMBDA i, j :
                \/ traitements[i].date_traitement
                     > traitements[j].date_traitement
                \/ /\ traitements[i].date_traitement
                       = traitements[j].date_traitement
                   /\ i < j)

\* Every order the clause ORDER BY date_traitement DESC allows for the
\* positions I: the rows of one date come in an order SQL leaves open.
OrdresParDate(I) ==
    LET base == TriParDate(I)
        n == Cardinality(I)
        date(k) == traitements[base[k]].date_traitement
        \* places that share their date with another place
        T == {k \in 1..n : \E l \in 1..n : l # k /\ date(l) = date(k)}
        Echanges == {g \in [T -> T] :
                       /\ \A k, l \in T : k # l => g[k] # g[l]
                       /\ \A k \in T : date(g[k]) = date(k)}
    IN  {[k \in 1..n |-> traitements[base[IF k \in T THEN g[k] ELSE k]]] :
            g \in Echanges}

\* obtenir_traitements(date_debut, date_fin): the rows with
\* date_debut <= date_traitement <= date_fin
obtenir_traitements(date_debut, date_fin) ==
    OrdresParDate({i \in 1..Len(traitements) :
                     /\ traitements[i].date_traitement >= date_debut
                     /\ traitements[i].date_traitement <= date_fin})

\* obtenir_traitements() without a date filter
obtenir_tous_traitements == OrdresParDate(1..Len(traitements))

AucunAppel == [op |-> "aucun"]

AucunResultat == [etat |-> "aucun"]

Retour(v) == [etat |-> "ok", valeur |-> v]

Exception(nom) == [etat |-> "exception", nom |-> nom]

ajouter_traitement(date_traitement, archiviste, dossiers_traites) ==
    /\ Len(traitements) < MaxEntries
    /\ sqlite_sequence < MaxId
    /\ sqlite_sequence' = sqlite_sequence + 1
    /\ traitements' = Append(traitements,
          [id |-> sqlite_sequence + 1,
           date_traitement |-> date_traitement,
           archiviste |-> archiviste,
           dossiers_traites |-> dossiers_traites])
    /\ appel' = AucunAppel
    /\ resultat' = AucunResultat
    /\ UNCHANGED <<parametres, archivistes>>

\* None, the value of a method without a return statement
Rien == Retour(NULL)

\* INSERT of a name the roster already holds breaks the UNIQUE constraint
ajouter_archiviste(nom) ==
    /\ IF \E a \in archivistes : a.nom = nom
       THEN /\ resultat' = Exception("IntegrityError")
            /\ UNCHANGED archivistes
       ELSE /\ resultat' = Rien
            /\ archivistes' = archivistes \cup {[nom |-> nom, actif |-> TRUE]}
    /\ appel' = [op |-> "ajouter_archiviste", nom |-> nom]
    /\ UNCHANGED <<traitements, sqlite_sequence, parametres>>

desactiver_archiviste(nom) ==
    /\ archivistes' = {IF a.nom = nom THEN [a EXCEPT !.actif = FALSE] ELSE a :
                          a \in archivistes}
    /\ appel' = [op |-> "desactiver_archiviste", nom |-> nom]
    /\ resultat' = Rien
    /\ UNCHANGED <<traitements, sqlite_sequence, parametres>>

\* the button "Réactiver archiviste" of page_archivistes
reactiver_archiviste(nom) ==
    /\ archivistes' = {IF a.nom = nom THEN [a EXCEPT !.actif = TRUE] ELSE a :
                          a \in archivistes}
    /\ appel' = [op |-> "reactiver_archiviste", nom |-> nom]
    /\ resultat' = Rien
    /\ UNCHANGED <<traitements, sqlite_sequence, parametres>>

\* supprimer_archiviste deleting the entries of the name with its row
supprimer_archiviste_Cascade(nom) ==
    /\ archivistes' = {a \in archivistes : a.nom # nom}
    /\ traitements' = SelectSeq(traitements, LAMBDA t : t.archiviste # nom)
    /\ appel' = [op |-> "supprimer_archiviste", nom |-> nom]
    /\ resultat' = Rien
    /\ UNCHANGED <<sqlite_sequence, parametres>>

supprimer_archiviste(nom) ==
    /\ archivistes' = {a \in archivistes : a.nom # nom}
    /\ appel' = [op |-> "supprimer_archiviste", nom |-> nom]
    /\ resultat' = Rien
    /\ UNCHANGED <<traitements, sqlite_sequence, parametres>>

\* the list jours_ouvres taking Saturday for a working day
JoursOuvresPeriode_AvecSamedi(start_per, end_per) ==
    SelectSeq([k \in 1..(end_per - start_per + 1) |-> start_per + k - 1],
              LAMBDA d : weekday(d) < 6)

\* the list jours_ouvres of the period form: the Monday-Friday dates from
\* start_per to end_per, ascending
JoursOuvresPeriode(start_per, end_per) ==
    SelectSeq([k \in 1..(end_per - start_per + 1) |-> start_per + k - 1],
              LAMBDA d : weekday(d) < 5)

\* formulaire_saisie, the period form submitted: the total is spread over
\* the working days, one call of ajouter_traitement for each
formulaire_saisie_periode(start_per, end_per, archiviste_sel2, total_dossiers_per) ==
    LET jours_ouvres == JoursOuvresPeriode(start_per, end_per)
        nb_jours == Len(jours_ouvres)
        base == total_dossiers_per \div nb_jours
        reste == total_dossiers_per % nb_jours
    IN  /\ IF start_per > end_per
           THEN /\ resultat' = [etat |-> "st.error", message |-> "date début"]
                /\ UNCHANGED <<traitements, sqlite_sequence>>
           ELSE IF nb_jours = 0
           THEN /\ resultat' = [etat |-> "st.error", message |-> "jour ouvré"]
                /\ UNCHANGED <<traitements, sqlite_sequence>>
           ELSE /\ resultat' = [etat |-> "st.success"]
                /\ Len(traitements) + nb_jours <= MaxLignes
                /\ sqlite_sequence + nb_jours <= MaxLignes
                /\ sqlite_sequence' = sqlite_sequence + nb_jours
                /\ traitements' = traitements \o
                      [i \in 1..nb_jours |->
                         [id |-> sqlite_sequence + i,
                          date_traitement |-> jours_ouvres[i],
                          archiviste |-> archiviste_sel2,
                          dossiers_traites |->
                             base + (IF i - 1 < reste THEN 1 ELSE 0)]]
        /\ appel' = [op |-> "formulaire_saisie_periode",
                     start_per |-> start_per, end_per |-> end_per,
                     archiviste_sel2 |-> archiviste_sel2,
                     total_dossiers_per |-> total_dossiers_per]
        /\ UNCHANGED <<parametres, archivistes>>

mettre_a_jour_parametre(cle, valeur) ==
    /\ parametres' = [parametres EXCEPT ![cle] = valeur]
    /\ appel' = AucunAppel
    /\ resultat' = AucunResultat
    /\ UNCHANGED <<traitements, sqlite_sequence, archivistes>>

\* page_parametres saving whatever the form holds
page_parametres_SansControle(new_stock, new_obj, new_seuil, new_pwd, new_pwd_app) ==
    /\ parametres' = [parametres EXCEPT
                         !["stock_initial"] = new_stock,
                         !["objectif_journalier"] = new_obj,
                         !["seuil_objectif"] = new_seuil,
                         !["mot_de_passe"] = new_pwd,
                         !["mot_de_passe_app"] = new_pwd_app]
    /\ resultat' = [etat |-> "st.success"]
    /\ appel' = [op |-> "page_parametres"]
    /\ UNCHANGED <<traitements, sqlite_sequence, archivistes>>

\* page_parametres, a click on the save button with the values of the
\* form; the message shown is kept as the result of the click
page_parametres(new_stock, new_obj, new_seuil, new_pwd, new_pwd_app) ==
    /\ IF new_stock <= 0 \/ new_obj <= 0
       THEN /\ resultat' = [etat |-> "st.error", message |-> "positifs"]
            /\ UNCHANGED parametres
       ELSE IF Len(new_pwd) < 3 \/ Len(new_pwd_app) < 3
       THEN /\ resultat' = [etat |-> "st.error", message |-> "mots de passe"]
            /\ UNCHANGED parametres
       ELSE /\ resultat' = [etat |-> "st.success"]
            /\ parametres' = [parametres EXCEPT
                                 !["stock_initial"] = new_stock,
                                 !["objectif_journalier"] = new_obj,
                                 !["seuil_objectif"] = new_seuil,
                                 !["mot_de_passe"] = new_pwd,
                                 !["mot_de_passe_app"] = new_pwd_app]
    /\ appel' = [op |-> "page_parametres"]
    /\ UNCHANGED <<traitements, sqlite_sequence, archivistes>>

\* what stands for a key without a row: NULL for a number, and for a
\* password a text that is no password of the model
SansLigne(c) ==
    IF c \in {"mot_de_passe", "mot_de_passe_app"} THEN "(aucune ligne)"
    ELSE NULL

\* INSERT OR REPLACE in place of INSERT OR IGNORE: every key is set back
\* to its default
ParametresSemes_Remplace(p) == init_default_params

\* the loop of INSERT OR IGNORE of init_default_params over the rows p of
\* the table parametres: a key that has a row keeps its value
ParametresSemes(p) ==
    [c \in Cles |->
        IF p[c] = SansLigne(c) THEN init_default_params[c] ELSE p[c]]

SENTINELLE == "ARCHIVISTE INCONNU"

\* reinitialiser_archivistes_complet putting the sentinel in the roster
\* whether the UPDATE touched a row or not
reinitialiser_archivistes_complet_ToujoursSentinelle ==
    /\ traitements' =
          [k \in 1..Len(traitements) |->
             IF traitements[k].archiviste \notin ARCHIVISTES_DEFAULT
             THEN [traitements[k] EXCEPT !.archiviste = SENTINELLE]
             ELSE traitements[k]]
    /\ archivistes' =
          {[nom |-> n, actif |-> TRUE] : n \in ARCHIVISTES_DEFAULT}
             \cup {[nom |-> SENTINELLE, actif |-> FALSE]}
    /\ UNCHANGED sqlite_sequence

\* reinitialiser_archivistes_complet(cursor): the entries of a name that is
\* not a default name are given to the sentinel, the roster is emptied and
\* filled with the default names, and the sentinel enters it, inactive,
\* when the UPDATE touched a row
reinitialiser_archivistes_complet ==
    LET nb_updates ==
            Cardinality({k \in 1..Len(traitements) :
                            traitements[k].archiviste \notin ARCHIVISTES_DEFAULT})
    IN  /\ traitements' =
              [k \in 1..Len(traitements) |->
                 IF traitements[k].archiviste \notin ARCHIVISTES_DEFAULT
                 THEN [traitements[k] EXCEPT !.archiviste = SENTINELLE]
                 ELSE traitements[k]]
        /\ archivistes' =
              {[nom |-> n, actif |-> TRUE] : n \in ARCHIVISTES_DEFAULT}
                 \cup (IF nb_updates > 0
                       THEN {[nom |-> SENTINELLE, actif |-> FALSE]}
                       ELSE {})
        /\ UNCHANGED sqlite_sequence

\* init_default_params resetting the roster at every start, whether it has
\* a row or not
init_database_ToujoursReinitialise ==
    /\ parametres' = ParametresSemes(parametres)
    /\ reinitialiser_archivistes_complet
    /\ appel' = [op |-> "init_database"]
    /\ resultat' = Rien

\* DatabaseManager(): init_database, then init_default_params, which calls
\* reinitialiser_archivistes_complet when the roster has no row
init_database ==
    /\ parametres' = ParametresSemes(parametres)
    /\ IF archivistes = {}
       THEN reinitialiser_archivistes_complet
       ELSE UNCHANGED <<traitements, sqlite_sequence, archivistes>>
    /\ appel' = [op |-> "init_database"]
    /\ resultat' = Rien

\* DELETE FROM traitements leaves the row of the table in sqlite_sequence
reinitialiser_donnees ==
    /\ traitements' = <<>>
    /\ appel' = [op |-> "reinitialiser_donnees"]
    /\ resultat' = Rien
    /\ UNCHANGED <<sqlite_sequence, parametres, archivistes>>

(***************************************************************************)
(* StatisticsCalculator                                                    *)
(***************************************************************************)
Dossiers(rows) == Somme([k \in 1..Len(rows) |-> rows[k].dossiers_traites])

\* KpisGlobaux without the max(0, ...) of line 281
KpisGlobaux_SansMax(rows) ==
    LET stock_initial == ParametreOu("stock_initial", 0)
        total == Dossiers(rows)
        restant == stock_initial - total
    IN  IF rows = <<>>
        THEN Retour([stock_initial |-> stock_initial,
                     dossiers_traites |-> 0,
                     stock_restant |-> stock_initial,
                     pourcentage_traite |-> 0])
        ELSE Retour([stock_initial |-> stock_initial,
                     dossiers_traites |-> total,
                     stock_restant |-> restant,
                     pourcentage_traite |->
                        IF stock_initial > 0
                        THEN Arrondi(total * 10000, stock_initial)
                        ELSE 0])

KpisGlobaux(rows) ==
    LET stock_initial == ParametreOu("stock_initial", 0)
        total == Dossiers(rows)
        restant == Max(0, stock_initial - total)
    IN  IF rows = <<>>
        THEN Retour([stock_initial |-> stock_initial,
                     dossiers_traites |-> 0,
                     stock_restant |-> stock_initial,
                     pourcentage_traite |-> 0])
        ELSE Retour([stock_initial |-> stock_initial,
                     dossiers_traites |-> total,
                     stock_restant |-> restant,
                     pourcentage_traite |->
                        IF stock_initial > 0
                        THEN Arrondi(total * 10000, stock_initial)
                        ELSE 0])

\* calculer_kpis_globaux emptying the table it has read
calculer_kpis_globaux_Purge ==
    /\ \E rows \in obtenir_tous_traitements :
          resultat' = KpisGlobaux(rows)
    /\ appel' = [op |-> "kpis"]
    /\ traitements' = <<>>
    /\ UNCHANGED <<sqlite_sequence, parametres, archivistes>>

calculer_kpis_globaux ==
    /\ \E rows \in obtenir_tous_traitements :
          resultat' = KpisGlobaux(rows)
    /\ appel' = [op |-> "kpis"]
    /\ UNCHANGED <<traitements, sqlite_sequence, parametres, archivistes>>

\* _jours_ouvres counting every Monday-Friday element, repeated or not
_jours_ouvres_ParLigne(dates_list) ==
    Cardinality({i \in 1..Len(dates_list) :
                    /\ strptime(dates_list[i]).ok
                    /\ weekday(strptime(dates_list[i]).date) < 5})

\* _jours_ouvres: each text is parsed, a text that does not parse is
\* passed over (bare except), and the distinct dates that fall on
\* Monday-Friday are counted
_jours_ouvres(dates_list) ==
    LET lus == {strptime(dates_list[k]) : k \in 1..Len(dates_list)}
    IN  Cardinality({p.date : p \in {q \in lus : q.ok /\ weekday(q.date) < 5}})

\* _calculer_jours_ouvres_annee counting every date of the year
_calculer_jours_ouvres_annee_Calendaires(annee) ==
    Cardinality(PremierJanvier(annee)..TrenteEtUnDecembre(annee))

\* _calculer_jours_ouvres_annee: the count the loop over the dates of the
\* year returns, five for each run of seven dates and the
\* Monday-Friday dates among those left at the end of the year
_calculer_jours_ouvres_annee(annee) ==
    LET semaines == JoursAnnee(annee) \div 7
    IN  5 * semaines
          + Cardinality({d \in (PremierJanvier(annee) + 7 * semaines)..
                                  TrenteEtUnDecembre(annee) :
                            weekday(d) < 5})

\* PerformancesJournalieres scaling the attained branch by 90 as the other
PerformancesJournalieres_Taux90(date_ref, rows) ==
    LET objectif == ParametreOu("objectif_journalier", 200)
        seuil_objectif == ParametreOu("seuil_objectif", 90)
        \* seuil_reussite = objectif * seuil_objectif, in hundredths
        seuil_reussite == objectif * seuil_objectif
        total == Dossiers(rows)
        atteint == total * 100 >= seuil_reussite
    IN  IF rows = <<>>
        THEN Retour([date |-> date_ref,
                     dossiers_traites |-> 0,
                     objectif |-> objectif,
                     seuil_reussite |-> Tronque(seuil_reussite, 100),
                     taux_realisation |-> 0,
                     objectif_atteint |-> FALSE,
                     ecart |-> -Tronque(seuil_reussite, 100)])
        ELSE IF atteint /\ objectif = 0
        THEN Exception("ZeroDivisionError")
        ELSE Retour([date |-> date_ref,
                     dossiers_traites |-> total,
                     objectif |-> objectif,
                     seuil_reussite |-> Tronque(seuil_reussite, 100),
                     taux_realisation |->
                        IF atteint
                        THEN Arrondi(total * 9000, objectif)
                        ELSE Arrondi(total * 900000, seuil_reussite),
                     objectif_atteint |-> atteint,
                     ecart |-> Tronque(total * 100 - seuil_reussite, 100)])

\* PerformancesJournalieres with the sign of ecart lost in the empty case
PerformancesJournalieres_EcartVide(date_ref, rows) ==
    LET objectif == ParametreOu("objectif_journalier", 200)
        seuil_objectif == ParametreOu("seuil_objectif", 90)
        \* seuil_reussite = objectif * seuil_objectif, in hundredths
        seuil_reussite == objectif * seuil_objectif
        total == Dossiers(rows)
        atteint == total * 100 >= seuil_reussite
    IN  IF rows = <<>>
        THEN Retour([date |-> date_ref,
                     dossiers_traites |-> 0,
                     objectif |-> objectif,
                     seuil_reussite |-> Tronque(seuil_reussite, 100),
                     taux_realisation |-> 0,
                     objectif_atteint |-> FALSE,
                     ecart |-> Tronque(seuil_reussite, 100)])
        ELSE IF atteint /\ objectif = 0
        THEN Exception("ZeroDivisionError")
        ELSE Retour([date |-> date_ref,
                     dossiers_traites |-> total,
                     objectif |-> objectif,
                     seuil_reussite |-> Tronque(seuil_reussite, 100),
                     taux_realisation |->
                        IF atteint
                        THEN Arrondi(total * 10000, objectif)
                        ELSE Arrondi(total * 900000, seuil_reussite),
                     objectif_atteint |-> atteint,
                     ecart |-> Tronque(total * 100 - seuil_reussite, 100)])

PerformancesJournalieres(date_ref, rows) ==
    LET objectif == ParametreOu("objectif_journalier", 200)
        seuil_objectif == ParametreOu("seuil_objectif", 90)
        \* seuil_reussite = objectif * seuil_objectif, in hundredths
        seuil_reussite == objectif * seuil_objectif
        total == Dossiers(rows)
        atteint == total * 100 >= seuil_reussite
    IN  IF rows = <<>>
        THEN Retour([date |-> date_ref,
                     dossiers_traites |-> 0,
                     objectif |-> objectif,
                     seuil_reussite |-> Tronque(seuil_reussite, 100),
                     taux_realisation |-> 0,
                     objectif_atteint |-> FALSE,
                     ecart |-> -Tronque(seuil_reussite, 100)])
        ELSE IF atteint /\ objectif = 0
        THEN Exception("ZeroDivisionError")
        ELSE Retour([date |-> date_ref,
                     dossiers_traites |-> total,
                     objectif |-> objectif,
                     seuil_reussite |-> Tronque(seuil_reussite, 100),
                     taux_realisation |->
                        IF atteint
                        THEN Arrondi(total * 10000, objectif)
                        ELSE Arrondi(total * 900000, seuil_reussite),
                     objectif_atteint |-> atteint,
                     ecart |-> Tronque(total * 100 - seuil_reussite, 100)])

calculer_performances_journalieres(date_ref) ==
    /\ \E rows \in obtenir_traitements(date_ref, date_ref) :
          resultat' = PerformancesJournalieres(date_ref, rows)
    /\ appel' = [op |-> "jour", date_ref |-> date_ref]
    /\ UNCHANGED <<traitements, sqlite_sequence, parametres, archivistes>>

DebutSemaine(date_ref) == date_ref - weekday(date_ref)

FinSemaine(date_ref) == DebutSemaine(date_ref) + 6

\* PerformancesHebdomadaires comparing the total with the target itself
PerformancesHebdomadaires_Strict(date_ref, rows) ==
    LET objectif_journalier == ParametreOu("objectif_journalier", 200)
        seuil_objectif == ParametreOu("seuil_objectif", 90)
        objectif_hebdo == objectif_journalier * 5
        \* seuil_hebdo = objectif_hebdo * seuil_objectif, in hundredths
        seuil_hebdo == objectif_hebdo * seuil_objectif
        total == Dossiers(rows)
        atteint == total * 100 >= objectif_hebdo * 100
        semaine == <<DebutSemaine(date_ref), FinSemaine(date_ref)>>
    IN  IF rows = <<>>
        THEN Retour([semaine |-> semaine,
                     dossiers_traites |-> 0,
                     objectif |-> objectif_hebdo,
                     seuil_reussite |-> Tronque(seuil_hebdo, 100),
                     taux_realisation |-> 0,
                     objectif_atteint |-> FALSE])
        ELSE IF atteint /\ objectif_hebdo = 0
        THEN Exception("ZeroDivisionError")
        ELSE Retour([semaine |-> semaine,
                     dossiers_traites |-> total,
                     objectif |-> objectif_hebdo,
                     seuil_reussite |-> Tronque(seuil_hebdo, 100),
                     taux_realisation |->
                        IF atteint
                        THEN Arrondi(total * 10000, objectif_hebdo)
                        ELSE Arrondi(total * 900000, seuil_hebdo),
                     objectif_atteint |-> atteint])

PerformancesHebdomadaires(date_ref, rows) ==
    LET objectif_journalier == ParametreOu("objectif_journalier", 200)
        seuil_objectif == ParametreOu("seuil_objectif", 90)
        objectif_hebdo == objectif_journalier * 5
        \* seuil_hebdo = objectif_hebdo * seuil_objectif, in hundredths
        seuil_hebdo == objectif_hebdo * seuil_objectif
        total == Dossiers(rows)
        atteint == total * 100 >= seuil_hebdo
        semaine == <<DebutSemaine(date_ref), FinSemaine(date_ref)>>
    IN  IF rows = <<>>
        THEN Retour([semaine |-> semaine,
                     dossiers_traites |-> 0,
                     objectif |-> objectif_hebdo,
                     seuil_reussite |-> Tronque(seuil_hebdo, 100),
                     taux_realisation |-> 0,
                     objectif_atteint |-> FALSE])
        ELSE IF atteint /\ objectif_hebdo = 0
        THEN Exception("ZeroDivisionError")
        ELSE Retour([semaine |-> semaine,
                     dossiers_traites |-> total,
                     objectif |-> objectif_hebdo,
                     seuil_reussite |-> Tronque(seuil_hebdo, 100),
                     taux_realisation |->
                        IF atteint
                        THEN Arrondi(total * 10000, objectif_hebdo)
                        ELSE Arrondi(total * 900000, seuil_hebdo),
                     objectif_atteint |-> atteint])

calculer_performances_hebdomadaires(date_ref) ==
    /\ \E rows \in obtenir_traitements(DebutSemaine(date_ref),
                                       FinSemaine(date_ref)) :
          resultat' = PerformancesHebdomadaires(date_ref, rows)
    /\ appel' = [op |-> "semaine", date_ref |-> date_ref]
    /\ UNCHANGED <<traitements, sqlite_sequence, parametres, archivistes>>

\* Archivistes keeping the names of the active roster only
Archivistes_Actifs(rows) ==
    LET noms == {rows[k].archiviste : k \in 1..Len(rows)}
                   \cap obtenir_archivistes
        premiere == [a \in noms |->
                       CHOOSE k \in 1..Len(rows) :
                          /\ rows[k].archiviste = a
                          /\ \A l \in 1..(k - 1) : rows[l].archiviste # a]
    IN  [p \in 1..Cardinality(noms) |->
            CHOOSE a \in noms :
               Cardinality({b \in noms : premiere[b] < premiere[a]}) = p - 1]

\* stats.setdefault(arch, []): the names in order of first appearance
Archivistes(rows) ==
    LET noms == {rows[k].archiviste : k \in 1..Len(rows)}
        premiere == [a \in noms |->
                       CHOOSE k \in 1..Len(rows) :
                          /\ rows[k].archiviste = a
                          /\ \A l \in 1..(k - 1) : rows[l].archiviste # a]
    IN  [p \in 1..Cardinality(noms) |->
            CHOOSE a \in noms :
               Cardinality({b \in noms : premiere[b] < premiere[a]}) = p - 1]

LignesDe(rows, arch) == SelectSeq(rows, LAMBDA t : t.archiviste = arch)

\* the texts t['date_traitement'] of the rows of one archivist
DatesDe(rows, arch) ==
    LET l == LignesDe(rows, arch)
    IN  [k \in 1..Len(l) |-> strftime(l[k].date_traitement)]

\* result.sort(key=..., reverse=True): stable, equal keys keep their order
RECURSIVE TriDecroissant(_, _)
TriDecroissant(s, cle) ==
    IF s = <<>> THEN <<>>
    ELSE LET fin == TriDecroissant(SubSeq(s, 1, Len(s) - 1), cle)
             x == s[Len(s)]
             n == Cardinality({k \in 1..Len(fin) : fin[k][cle] >= x[cle]})
         IN  SubSeq(fin, 1, n) \o <<x>> \o SubSeq(fin, n + 1, Len(fin))

\* one record of obtenir_performances_hebdo_par_archiviste
LigneHebdo(rows, arch) ==
    LET objectif_journalier == ParametreOu("objectif_journalier", 200)
        seuil_objectif == ParametreOu("seuil_objectif", 90)
        objectif_hebdo == objectif_journalier * 5
        seuil_hebdo == objectif_hebdo * seuil_objectif
        total == Dossiers(LignesDe(rows, arch))
        jours_ouvres == _jours_ouvres(DatesDe(rows, arch))
        atteint == total * 100 >= seuil_hebdo
    IN  [archiviste |-> arch,
         total_dossiers |-> total,
         jours_travailles |-> jours_ouvres,
         moyenne_jour |-> IF jours_ouvres > 0
                          THEN Arrondi(total * 10, jours_ouvres) ELSE 0,
         taux_hebdo |-> IF atteint
                        THEN Arrondi(total * 1000, objectif_hebdo)
                        ELSE Arrondi(total * 90000, seuil_hebdo),
         objectif_hebdo |-> objectif_hebdo,
         seuil_reussite |-> Tronque(seuil_hebdo, 100),
         statut |-> IF atteint THEN "Objectif atteint"
                    ELSE IF total * 9000 >= 80 * seuil_hebdo
                    THEN "Proche objectif"
                    ELSE "En retard"]

PerformancesHebdoParArchiviste(rows) ==
    LET noms == Archivistes(rows)
        objectif_hebdo == ParametreOu("objectif_journalier", 200) * 5
    IN  IF rows = <<>> THEN Retour(<<>>)
        \* every total is >= 0 = seuil_hebdo: the first record divides by 0
        ELSE IF objectif_hebdo = 0 THEN Exception("ZeroDivisionError")
        ELSE Retour(TriDecroissant(
                 [k \in 1..Len(noms) |-> LigneHebdo(rows, noms[k])],
                 "taux_hebdo"))

\* obtenir_performances_hebdo_par_archiviste reading the 7 days that end at
\* date_ref instead of the week of date_ref
obtenir_performances_hebdo_par_archiviste_7Jours(date_ref) ==
    /\ \E rows \in obtenir_traitements(date_ref - 6, date_ref) :
          resultat' = PerformancesHebdoParArchiviste(rows)
    /\ appel' = [op |-> "hebdo", date_ref |-> date_ref]
    /\ UNCHANGED <<traitements, sqlite_sequence, parametres, archivistes>>

obtenir_performances_hebdo_par_archiviste(date_ref) ==
    /\ \E rows \in obtenir_traitements(DebutSemaine(date_ref),
                                       FinSemaine(date_ref)) :
          resultat' = PerformancesHebdoParArchiviste(rows)
    /\ appel' = [op |-> "hebdo", date_ref |-> date_ref]
    /\ UNCHANGED <<traitements, sqlite_sequence, parametres, archivistes>>

\* one record of obtenir_performances_30j_par_archiviste
\* Ligne30j with the near-target tier starting at 90
Ligne30j_Proche90(rows, arch) ==
    LET objectif == ParametreOu("objectif_journalier", 200)
        seuil_objectif == ParametreOu("seuil_objectif", 90)
        \* seuil_journalier = objectif * seuil_objectif, in hundredths
        seuil_journalier == objectif * seuil_objectif
        total == Dossiers(LignesDe(rows, arch))
        jours_ouvres == _jours_ouvres(DatesDe(rows, arch))
        \* moy = moy_n / moy_d
        moy_n == IF jours_ouvres > 0 THEN total ELSE 0
        moy_d == IF jours_ouvres > 0 THEN jours_ouvres ELSE 1
        atteint == moy_n * 100 >= seuil_journalier * moy_d
    IN  [archiviste |-> arch,
         total_dossiers |-> total,
         jours_travailles |-> jours_ouvres,
         moyenne_jour |-> Arrondi(moy_n * 10, moy_d),
         taux_objectif |-> IF atteint
                           THEN Arrondi(moy_n * 1000, moy_d * objectif)
                           ELSE Arrondi(moy_n * 90000,
                                        moy_d * seuil_journalier),
         seuil_journalier |-> Tronque(seuil_journalier, 100),
         statut |-> IF atteint THEN "Objectif atteint"
                    ELSE IF moy_n * 9000 >= 90 * moy_d * seuil_journalier
                    THEN "Proche objectif"
                    ELSE "En retard"]

Ligne30j(rows, arch) ==
    LET objectif == ParametreOu("objectif_journalier", 200)
        seuil_objectif == ParametreOu("seuil_objectif", 90)
        \* seuil_journalier = objectif * seuil_objectif, in hundredths
        seuil_journalier == objectif * seuil_objectif
        total == Dossiers(LignesDe(rows, arch))
        jours_ouvres == _jours_ouvres(DatesDe(rows, arch))
        \* moy = moy_n / moy_d
        moy_n == IF jours_ouvres > 0 THEN total ELSE 0
        moy_d == IF jours_ouvres > 0 THEN jours_ouvres ELSE 1
        atteint == moy_n * 100 >= seuil_journalier * moy_d
    IN  [archiviste |-> arch,
         total_dossiers |-> total,
         jours_travailles |-> jours_ouvres,
         moyenne_jour |-> Arrondi(moy_n * 10, moy_d),
         taux_objectif |-> IF atteint
                           THEN Arrondi(moy_n * 1000, moy_d * objectif)
                           ELSE Arrondi(moy_n * 90000,
                                        moy_d * seuil_journalier),
         seuil_journalier |-> Tronque(seuil_journalier, 100),
         statut |-> IF atteint THEN "Objectif atteint"
                    ELSE IF moy_n * 9000 >= 80 * moy_d * seuil_journalier
                    THEN "Proche objectif"
                    ELSE "En retard"]

Performances30jParArchiviste(rows) ==
    LET noms == Archivistes(rows)
        objectif == ParametreOu("objectif_journalier", 200)
    IN  IF rows = <<>> THEN Retour(<<>>)
        \* with objectif = 0 every moy is >= 0 = seuil_journalier
        ELSE IF objectif = 0 THEN Exception("ZeroDivisionError")
        ELSE Retour([k \in 1..Len(noms) |-> Ligne30j(rows, noms[k])])

obtenir_performances_30j_par_archiviste(aujourdhui) ==
    /\ \E rows \in obtenir_traitements(aujourdhui - 30, aujourdhui) :
          resultat' = Performances30jParArchiviste(rows)
    /\ appel' = [op |-> "30j", date_ref |-> aujourdhui]
    /\ UNCHANGED <<traitements, sqlite_sequence, parametres, archivistes>>

\* the loop of _calculer_jours_ouvres_annee stopping before 31 December
JoursOuvresAnneePas_SansDernierJour ==
    /\ appel.op = "jours_ouvres_annee"
    /\ resultat = AucunResultat
    /\ IF appel.current < TrenteEtUnDecembre(appel.annee)
       THEN /\ appel' = [appel EXCEPT
                           !.jours_ouvres =
                               IF weekday(appel.current) < 5 THEN @ + 1 ELSE @,
                           !.current = @ + 1]
            /\ UNCHANGED resultat
       ELSE /\ resultat' = Retour(appel.jours_ouvres)
            /\ UNCHANGED appel
    /\ UNCHANGED <<traitements, sqlite_sequence, parametres, archivistes>>

\* _calculer_jours_ouvres_annee as the code runs it: one turn of the loop
\* `while current <= fin`, or the return when the loop is over
JoursOuvresAnneePas ==
    /\ appel.op = "jours_ouvres_annee"
    /\ resultat = AucunResultat
    /\ IF appel.current <= TrenteEtUnDecembre(appel.annee)
       THEN /\ appel' = [appel EXCEPT
                           !.jours_ouvres =
                               IF weekday(appel.current) < 5 THEN @ + 1 ELSE @,
                           !.current = @ + 1]
            /\ UNCHANGED resultat
       ELSE /\ resultat' = Retour(appel.jours_ouvres)
            /\ UNCHANGED appel
    /\ UNCHANGED <<traitements, sqlite_sequence, parametres, archivistes>>

\* LigneAnnuelle rating the average against the target of a 5-day week
LigneAnnuelle_CibleHebdo(rows, arch, annee) ==
    LET objectif_journalier == ParametreOu("objectif_journalier", 200) * 5
        seuil_objectif == ParametreOu("seuil_objectif", 90)
        seuil_journalier == objectif_journalier * seuil_objectif
        total == Dossiers(LignesDe(rows, arch))
        jours_ouvres == _jours_ouvres(DatesDe(rows, arch))
        moy_n == IF jours_ouvres > 0 THEN total ELSE 0
        moy_d == IF jours_ouvres > 0 THEN jours_ouvres ELSE 1
        atteint == moy_n * 100 >= seuil_journalier * moy_d
        jours_ouvres_annee == _calculer_jours_ouvres_annee(annee)
    IN  [archiviste |-> arch,
         total_dossiers |-> total,
         jours_travailles |-> jours_ouvres,
         moyenne_jour |-> Arrondi(moy_n * 10, moy_d),
         taux_objectif |-> IF atteint
                           THEN Arrondi(moy_n * 1000,
                                        moy_d * objectif_journalier)
                           ELSE Arrondi(moy_n * 90000,
                                        moy_d * seuil_journalier),
         couverture_annee |-> IF jours_ouvres_annee > 0
                              THEN Arrondi(jours_ouvres * 1000,
                                           jours_ouvres_annee)
                              ELSE 0,
         seuil_journalier |-> Tronque(seuil_journalier, 100),
         statut |-> IF atteint THEN "Excellent"
                    ELSE IF moy_n * 9000 >= 80 * moy_d * seuil_journalier
                    THEN "Correct"
                    ELSE IF moy_n * 9000 >= 60 * moy_d * seuil_journalier
                    THEN "Moyen"
                    ELSE "Insuffisant",
         annee |-> annee]

\* one record of obtenir_performances_annuelles_par_archiviste
LigneAnnuelle(rows, arch, annee) ==
    LET objectif_journalier == ParametreOu("objectif_journalier", 200)
        seuil_objectif == ParametreOu("seuil_objectif", 90)
        seuil_journalier == objectif_journalier * seuil_objectif
        total == Dossiers(LignesDe(rows, arch))
        jours_ouvres == _jours_ouvres(DatesDe(rows, arch))
        moy_n == IF jours_ouvres > 0 THEN total ELSE 0
        moy_d == IF jours_ouvres > 0 THEN jours_ouvres ELSE 1
        atteint == moy_n * 100 >= seuil_journalier * moy_d
        jours_ouvres_annee == _calculer_jours_ouvres_annee(annee)
    IN  [archiviste |-> arch,
         total_dossiers |-> total,
         jours_travailles |-> jours_ouvres,
         moyenne_jour |-> Arrondi(moy_n * 10, moy_d),
         taux_objectif |-> IF atteint
                           THEN Arrondi(moy_n * 1000,
                                        moy_d * objectif_journalier)
                           ELSE Arrondi(moy_n * 90000,
                                        moy_d * seuil_journalier),
         couverture_annee |-> IF jours_ouvres_annee > 0
                              THEN Arrondi(jours_ouvres * 1000,
                                           jours_ouvres_annee)
                              ELSE 0,
         seuil_journalier |-> Tronque(seuil_journalier, 100),
         statut |-> IF atteint THEN "Excellent"
                    ELSE IF moy_n * 9000 >= 80 * moy_d * seuil_journalier
                    THEN "Correct"
                    ELSE IF moy_n * 9000 >= 60 * moy_d * seuil_journalier
                    THEN "Moyen"
                    ELSE "Insuffisant",
         annee |-> annee]

PerformancesAnnuellesParArchiviste(rows, annee) ==
    LET noms == Archivistes(rows)
        objectif_journalier == ParametreOu("objectif_journalier", 200)
    IN  IF rows = <<>> THEN Retour(<<>>)
        ELSE IF objectif_journalier = 0 THEN Exception("ZeroDivisionError")
        ELSE Retour(TriDecroissant(
                 [k \in 1..Len(noms) |-> LigneAnnuelle(rows, noms[k], annee)],
                 "taux_objectif"))

obtenir_performances_annuelles_par_archiviste(annee) ==
    /\ \E rows \in obtenir_traitements(PremierJanvier(annee),
                                       TrenteEtUnDecembre(annee)) :
          resultat' = PerformancesAnnuellesParArchiviste(rows, annee)
    /\ appel' = [op |-> "annee", annee |-> annee]
    /\ UNCHANGED <<traitements, sqlite_sequence, parametres, archivistes>>

\* datetime.now().strftime("%d/%m/%Y %H:%M") at minute hm of the date d
TexteJMA_HM(d, hm) ==
    [forme |-> "JMA HM", j |-> strftime(d).j, m |-> strftime(d).m,
     a |-> strftime(d).a, hm |-> hm]

\* The report of export_analyse from what it has read: the rows of the
\* table, the 30-day list, and the clock.  Numbers written with one
\* decimal are in tenths.
RapportAnalyse(kpis, traitements_lus, perf_arch, jour, hm) ==
    LET jours_ecoules ==
            Cardinality({traitements_lus[k].date_traitement :
                            k \in 1..Len(traitements_lus)})
        total_dossiers == kpis.dossiers_traites
        objectif == ParametreOu("objectif_journalier", 200)
        seuil_objectif == ParametreOu("seuil_objectif", 90)
        \* seuil_journalier = objectif * seuil_objectif, in hundredths
        seuil_journalier == objectif * seuil_objectif
        atteint == total_dossiers * 100 >= seuil_journalier * jours_ecoules
        perf_journalier_pct ==
            IF jours_ecoules = 0 THEN 0
            ELSE IF atteint
            THEN Arrondi(total_dossiers * 1000, jours_ecoules * objectif)
            ELSE Arrondi(total_dossiers * 90000,
                         jours_ecoules * seuil_journalier)
    IN  IF jours_ecoules > 0 /\ atteint /\ objectif = 0
        THEN Exception("ZeroDivisionError")
        ELSE Retour(
          [date_analyse |-> TexteJMA_HM(jour, hm),
           stock_initial |-> kpis.stock_initial,
           nb_archivistes |-> Cardinality(obtenir_archivistes),
           objectif |-> objectif,
           seuil |-> Tronque(seuil_journalier, 100),
           taux_reussite |-> Arrondi(kpis.pourcentage_traite, 10),
           total_dossiers |-> total_dossiers,
           jours_ecoules |-> jours_ecoules,
           stock_restant |-> kpis.stock_restant,
           taux_journalier_reel |->
              IF jours_ecoules > 0
              THEN Arrondi(total_dossiers * 10, jours_ecoules) ELSE 0,
           perf_journalier_pct |-> perf_journalier_pct,
           perf_hebdo_pct |-> perf_journalier_pct,
           perf_mensuel_pct |-> perf_journalier_pct,
           perf_annuel_pct |-> perf_journalier_pct,
           archivistes |->
              [k \in 1..Len(perf_arch) |->
                 [nom |-> perf_arch[k].archiviste,
                  dossiers_t |-> perf_arch[k].total_dossiers,
                  jours |-> perf_arch[k].jours_travailles,
                  taux_j |->
                     IF perf_arch[k].jours_travailles # 0
                     THEN Arrondi(perf_arch[k].total_dossiers * 10,
                                  perf_arch[k].jours_travailles)
                     ELSE 0,
                  objectif_ind |-> objectif,
                  seuil_90 |-> perf_arch[k].seuil_journalier,
                  perf_pct |-> perf_arch[k].taux_objectif,
                  statut |-> perf_arch[k].statut]]])

\* export_analyse(db, stats_calc) called on the date jour at the minute hm.
\* The call keeps, next to the report, the three values the report is said
\* to be a function of: the KPI record, the per-archivist list and the
\* configuration values.
export_analyse(jour, hm) ==
    /\ \E tous \in obtenir_tous_traitements,
          rows \in obtenir_traitements(jour - 30, jour) :
          LET kpis == KpisGlobaux(tous)
              perf_arch == Performances30jParArchiviste(rows)
          IN  /\ appel' =
                    [op |-> "export_analyse",
                     kpis |-> kpis,
                     perf_arch |-> perf_arch,
                     objectif |-> ParametreOu("objectif_journalier", 200),
                     seuil_objectif |-> ParametreOu("seuil_objectif", 90)]
              /\ resultat' =
                    IF perf_arch.etat # "ok" THEN perf_arch
                    ELSE RapportAnalyse(kpis.valeur, tous, perf_arch.valeur,
                                        jour, hm)
    /\ UNCHANGED <<traitements, sqlite_sequence, parametres, archivistes>>

(***************************************************************************)
(* Pages: the forms that write the table traitements                       *)
(***************************************************************************)
\* st.number_input without min_value: any whole number goes through
number_input_SansMin(min_value, saisi) == saisi

\* st.number_input(min_value=0, step=1): the widget holds no value below
\* min_value, a smaller number typed in is brought back to it
number_input(min_value, saisi) == Max(min_value, saisi)

\* formulaire_saisie, the daily form submitted, and confirmed when it warns:
\* date_input.strftime("%Y-%m-%d") and int(dossiers) go to the store
formulaire_saisie_journalier(date_input, archiviste_sel, saisi) ==
    ajouter_traitement(date_input, archiviste_sel, number_input(0, saisi))

\* the rows the tabs "Modifier" and "Supprimer" find for a date: the filter
\* is "Tous" or a row (nom, actif) of obtenir_archivistes(False), which the
\* name of no entry equals
SaisiesTrouvees(date_recherche, filtre_tous) ==
    {k \in 1..Len(traitements) :
        /\ traitements[k].date_traitement = date_recherche
        /\ filtre_tous}

\* form_modification submitted: UPDATE traitements SET date_traitement,
\* archiviste, dossiers_traites, commentaire WHERE id
formulaire_modification(date_recherche, filtre_tous, k, nouvelle_date, nouvel_archiviste, saisi) ==
    /\ k \in SaisiesTrouvees(date_recherche, filtre_tous)
    /\ traitements' =
          [traitements EXCEPT ![k] =
              [@ EXCEPT !.date_traitement = nouvelle_date,
                        !.archiviste = nouvel_archiviste,
                        !.dossiers_traites = number_input(0, saisi)]]
    /\ appel' = [op |-> "formulaire_modification", id |-> traitements[k].id,
                 saisi |-> saisi]
    /\ resultat' = [etat |-> "st.success"]
    /\ UNCHANGED <<sqlite_sequence, parametres, archivistes>>

\* the annual view, "Modifier des saisies depuis le cumul annuel": the
\* archivist is one of the rows of the year, the entry one of theirs in the
\* year; UPDATE traitements SET date_traitement, dossiers_traites,
\* commentaire WHERE id
modifier_saisie_cumul(annee_selectee, archiviste_selectionne, k, nouvelle_date_cumul, saisi) ==
    /\ ParametreOu("objectif_journalier", 200) # 0
    /\ k \in 1..Len(traitements)
    /\ traitements[k].archiviste = archiviste_selectionne
    /\ traitements[k].date_traitement \in
          PremierJanvier(annee_selectee)..TrenteEtUnDecembre(annee_selectee)
    /\ traitements' =
          [traitements EXCEPT ![k] =
              [@ EXCEPT !.date_traitement = nouvelle_date_cumul,
                        !.dossiers_traites = number_input(0, saisi)]]
    /\ appel' = [op |-> "modifier_saisie_cumul", id |-> traitements[k].id,
                 saisi |-> saisi]
    /\ resultat' = [etat |-> "st.success"]
    /\ UNCHANGED <<sqlite_sequence, parametres, archivistes>>

\* the tab "Supprimer", the box ticked and then the button pressed:
\* DELETE FROM traitements WHERE id
supprimer_saisie(date_recherche_suppr, filtre_tous, k) ==
    /\ k \in SaisiesTrouvees(date_recherche_suppr, filtre_tous)
    /\ traitements' =
          SelectSeq(traitements, LAMBDA t : t.id # traitements[k].id)
    /\ appel' = [op |-> "supprimer_saisie", id |-> traitements[k].id]
    /\ resultat' = [etat |-> "st.success"]
    /\ UNCHANGED <<sqlite_sequence, parametres, archivistes>>

\* "Supprimer toute la date": DELETE FROM traitements WHERE date_traitement
supprimer_date(date_suppr_groupe) ==
    /\ traitements' =
          SelectSeq(traitements,
                    LAMBDA t : t.date_traitement # date_suppr_groupe)
    /\ appel' = [op |-> "supprimer_date", date |-> date_suppr_groupe]
    /\ resultat' =
          Retour(Cardinality({k \in 1..Len(traitements) :
                     traitements[k].date_traitement = date_suppr_groupe}))
    /\ UNCHANGED <<sqlite_sequence, parametres, archivistes>>

\* "Supprimer tout l'archiviste": DELETE FROM traitements WHERE archiviste
supprimer_saisies_archiviste(archiviste_suppr_groupe) ==
    /\ traitements' =
          SelectSeq(traitements,
                    LAMBDA t : t.archiviste # archiviste_suppr_groupe)
    /\ appel' = [op |-> "supprimer_saisies_archiviste",
                 nom |-> archiviste_suppr_groupe]
    /\ resultat' =
          Retour(Cardinality({k \in 1..Len(traitements) :
                     traitements[k].archiviste = archiviste_suppr_groupe}))
    /\ UNCHANGED <<sqlite_sequence, parametres, archivistes>>

\* new_arch.strip().upper() of the names typed in the field of the page
upper_strip(new_arch) ==
    IF new_arch = " moussa fall" THEN "MOUSSA FALL"
    ELSE IF new_arch = "  " THEN ""
    ELSE new_arch

\* One script run of the section "Archivistes" after the interaction
\* evenement.  A st.button reads True only in the run its click causes.  A
\* st.checkbox reads the value the browser holds for it when the run before
\* rendered it and False otherwise; the browser of the last run is kept in
\* appel.case: "absente" when the run did not render the box.  Ticking the
\* box is an interaction of its own and needs the box on the page.
\* DatabaseManager() at the head of main changes nothing here: the five
\* keys have a row and the roster has one.
page_archivistes(evenement, choix_arch, new_arch) ==
    LET montree == /\ appel.op = "page_archivistes"
                   /\ appel.choix_arch = choix_arch
                   /\ appel.case # "absente"
        actif_status == \E a \in archivistes : a.nom = choix_arch /\ a.actif
        bouton == evenement = "Supprimer définitivement"
        case_navigateur ==
            IF evenement = "Confirmer la suppression" THEN "cochée"
            ELSE IF montree THEN appel.case
            ELSE "absente"
        confirm == bouton /\ case_navigateur = "cochée"
        nom == upper_strip(new_arch)
    IN  /\ archivistes # {}
        /\ parametres = ParametresSemes(parametres)
        /\ \E a \in archivistes : a.nom = choix_arch
        /\ evenement = "Confirmer la suppression" => montree
        /\ evenement = "Désactiver archiviste" => actif_status
        /\ evenement = "Réactiver archiviste" => ~actif_status
        /\ IF evenement = "Ajouter archiviste"
           THEN IF nom = ""
                THEN /\ resultat' = [etat |-> "st.error", message |-> "vide"]
                     /\ UNCHANGED archivistes
                ELSE IF \E a \in archivistes : a.nom = nom
                THEN /\ resultat' = [etat |-> "st.warning"]
                     /\ UNCHANGED archivistes
                ELSE /\ resultat' = [etat |-> "st.success"]
                     /\ archivistes' =
                           archivistes \cup {[nom |-> nom, actif |-> TRUE]}
           ELSE IF evenement = "Désactiver archiviste"
           THEN /\ resultat' = [etat |-> "st.success"]
                /\ archivistes' =
                      {IF a.nom = choix_arch THEN [a EXCEPT !.actif = FALSE]
                       ELSE a : a \in archivistes}
           ELSE IF evenement = "Réactiver archiviste"
           THEN /\ resultat' = [etat |-> "st.success"]
                /\ archivistes' =
                      {IF a.nom = choix_arch THEN [a EXCEPT !.actif = TRUE]
                       ELSE a : a \in archivistes}
           ELSE IF confirm
           THEN /\ resultat' = [etat |-> "st.success"]
                /\ archivistes' = {a \in archivistes : a.nom # choix_arch}
           ELSE /\ resultat' = AucunResultat
                /\ UNCHANGED archivistes
        /\ appel' = [op |-> "page_archivistes", evenement |-> evenement,
                     choix_arch |-> choix_arch,
                     case |-> IF ~bouton THEN "absente"
                              ELSE IF confirm THEN "cochée" ELSE "décochée"]
        /\ UNCHANGED <<traitements, sqlite_sequence, parametres>>

\* One script run of the section "Accueil" after the interaction evenement
\* in the sidebar, the text pwd being in the password field: the button
\* and the box follow the rules given for page_archivistes
sidebar_authentication(evenement, pwd) ==
    LET valid_pwd == obtenir_parametre("mot_de_passe")
        authentifie == pwd # "" /\ pwd = valid_pwd
        etait_authentifie == /\ appel.op = "sidebar_authentication"
                             /\ appel.authentifie
        montree == etait_authentifie /\ appel.case # "absente"
        bouton == evenement = "Réinitialiser toutes les données"
        case_navigateur ==
            IF evenement = "Confirmer la réinitialisation" THEN "cochée"
            ELSE IF montree THEN appel.case
            ELSE "absente"
        confirm == authentifie /\ bouton /\ case_navigateur = "cochée"
    IN  /\ archivistes # {}
        /\ parametres = ParametresSemes(parametres)
        /\ evenement = "Réinitialiser toutes les données"
           => etait_authentifie /\ pwd = appel.pwd
        /\ evenement = "Confirmer la réinitialisation"
           => montree /\ pwd = appel.pwd
        /\ IF confirm
           THEN /\ traitements' = <<>>
                /\ resultat' = [etat |-> "st.info"]
           ELSE /\ UNCHANGED traitements
                /\ resultat' = IF pwd # "" /\ ~authentifie
                               THEN [etat |-> "st.error",
                                     message |-> "incorrect"]
                               ELSE IF authentifie
                               THEN [etat |-> "st.success"]
                               ELSE AucunResultat
        /\ appel' = [op |-> "sidebar_authentication",
                     evenement |-> evenement, pwd |-> pwd,
                     authentifie |-> authentifie,
                     case |-> IF ~(authentifie /\ bouton) THEN "absente"
                              ELSE IF confirm THEN "cochée" ELSE "décochée"]
        /\ UNCHANGED <<sqlite_sequence, parametres, archivistes>>

(***************************************************************************)
(* Specifications                                                          *)
(***************************************************************************)
Init ==
    /\ traitements = <<>>
    /\ sqlite_sequence = 0
    /\ parametres = init_default_params
    /\ archivistes = ArchivistesInitiaux
    /\ appel = AucunAppel
    /\ resultat = AucunResultat

\* the daily form: the archivist is picked among the active ones
AjouterTraitement ==
    \E d \in DatesSaisie, a \in Noms \cap obtenir_archivistes, n \in Comptes :
        ajouter_traitement(d, a, n)

MajStock ==
    \E v \in StockValeurs : mettre_a_jour_parametre("stock_initial", v)

MajObjectif ==
    \E v \in ObjectifValeurs :
        mettre_a_jour_parametre("objectif_journalier", v)

MajSeuil ==
    \E v \in SeuilValeurs : mettre_a_jour_parametre("seuil_objectif", v)

PerfJour == \E d \in DatesRef : calculer_performances_journalieres(d)

PerfSemaine == \E d \in DatesRef : calculer_performances_hebdomadaires(d)

PerfHebdoArch ==
    \E d \in DatesRef : obtenir_performances_hebdo_par_archiviste(d)

Perf30j == \E d \in DatesRef : obtenir_performances_30j_par_archiviste(d)

PerfAnnee ==
    \E a \in AnneesRef : obtenir_performances_annuelles_par_archiviste(a)

NextKpi ==
    \/ AjouterTraitement
    \/ MajStock
    \/ calculer_kpis_globaux

SpecKpi == Init /\ [][NextKpi]_vars

Next ==
    \/ AjouterTraitement
    \/ MajObjectif
    \/ MajSeuil
    \/ PerfJour
    \/ PerfSemaine
    \/ PerfHebdoArch
    \/ Perf30j
    \/ PerfAnnee

Spec == Init /\ [][Next]_vars

EnregistrerParametres ==
    \E st \in StockValeurs, ob \in ObjectifValeurs, se \in SeuilCurseur,
       pw \in MotsDePasseAdmin, pa \in MotsDePasseApp :
        page_parametres(st, ob, se, pw, pa)

\* the store as the pages of the application write it
NextSurface ==
    \/ AjouterTraitement
    \/ EnregistrerParametres
    \/ PerfJour
    \/ PerfSemaine
    \/ Perf30j
    \/ PerfAnnee

SpecSurface == Init /\ [][NextSurface]_vars

\* the daily form on Saturday 2025-01-04
SaisieSamedi ==
    \E a \in Noms \cap obtenir_archivistes : ajouter_traitement(369, a, 50)

SaisiePeriode ==
    \E p \in PeriodesSaisie, a \in Noms \cap obtenir_archivistes,
       n \in TotauxPeriode :
        formulaire_saisie_periode(p[1], p[2], a, n)

\* a store holding a whole year of entries
NextCouverture ==
    \/ SaisieSamedi
    \/ SaisiePeriode
    \/ PerfAnnee

SpecCouverture == Init /\ [][NextCouverture]_vars

AjouterArchiviste == \E n \in Noms : ajouter_archiviste(n)

DesactiverArchiviste == \E n \in Noms : desactiver_archiviste(n)

ReactiverArchiviste == \E n \in Noms : reactiver_archiviste(n)

SupprimerArchiviste == \E n \in Noms : supprimer_archiviste(n)

\* entries and roster changing side by side
NextArchivistes ==
    \/ AjouterTraitement
    \/ AjouterArchiviste
    \/ DesactiverArchiviste
    \/ ReactiverArchiviste
    \/ SupprimerArchiviste
    \/ PerfHebdoArch
    \/ Perf30j
    \/ PerfAnnee

SpecArchivistes == Init /\ [][NextArchivistes]_vars

\* The engine over any store it may be handed: each of the three numeric
\* parameters present or without a row, the roster as created or with an
\* inactive and a deleted default name.
InitMoteur ==
    /\ traitements = <<>>
    /\ sqlite_sequence = 0
    /\ \E st \in {NULL, 100}, ob \in {NULL, 101}, se \in {NULL, 50} :
          parametres = [init_default_params EXCEPT
                          !["stock_initial"] = st,
                          !["objectif_journalier"] = ob,
                          !["seuil_objectif"] = se]
    /\ \/ archivistes = ArchivistesInitiaux
       \/ archivistes =
             {IF a.nom = "KANI TOURE" THEN [a EXCEPT !.actif = FALSE] ELSE a :
                a \in {b \in ArchivistesInitiaux : b.nom # "ABDOU DIATTA"}}
    /\ appel = AucunAppel
    /\ resultat = AucunResultat

NextMoteur ==
    \/ AjouterTraitement
    \/ calculer_kpis_globaux
    \/ PerfJour
    \/ PerfSemaine
    \/ PerfHebdoArch
    \/ Perf30j
    \/ PerfAnnee

SpecMoteur == InitMoteur /\ [][NextMoteur]_vars

\* texts given to _jours_ouvres alone: Monday 2025-01-06, Tuesday
\* 2025-01-07, Saturday 2025-01-04, a day and a month that do not exist,
\* a text of another form
TextesDates ==
    {TexteYMD(2025, 1, 6), TexteYMD(2025, 1, 7), TexteYMD(2025, 1, 4),
     TexteYMD(2025, 2, 31), TexteYMD(2025, 13, 1), TexteAutre}

\* a call of _jours_ouvres(dates_list) on its own
InitJoursOuvres ==
    /\ traitements = <<>>
    /\ sqlite_sequence = 0
    /\ parametres = init_default_params
    /\ archivistes = ArchivistesInitiaux
    /\ \E n \in 0..MaxDates : \E l \in [1..n -> TextesDates] :
          appel = [op |-> "_jours_ouvres", dates_list |-> l]
    /\ resultat = AucunResultat

AppelJoursOuvres ==
    /\ appel.op = "_jours_ouvres"
    /\ resultat = AucunResultat
    /\ resultat' = Retour(_jours_ouvres(appel.dates_list))
    /\ UNCHANGED <<traitements, sqlite_sequence, parametres, archivistes, appel>>

NextJoursOuvres == AppelJoursOuvres

SpecJoursOuvres == InitJoursOuvres /\ [][NextJoursOuvres]_vars

\* a call of _calculer_jours_ouvres_annee(annee) on its own
InitAnnee ==
    /\ traitements = <<>>
    /\ sqlite_sequence = 0
    /\ parametres = init_default_params
    /\ archivistes = ArchivistesInitiaux
    /\ \E a \in AnneesCalendrier :
          appel = [op |-> "jours_ouvres_annee", annee |-> a,
                   current |-> PremierJanvier(a), jours_ouvres |-> 0]
    /\ resultat = AucunResultat

NextAnnee == JoursOuvresAnneePas

SpecAnnee == InitAnnee /\ [][NextAnnee]_vars /\ WF_vars(NextAnnee)

(***************************************************************************)
(* The store as a call sees it, computed from the table itself             *)
(***************************************************************************)
\* positions of the rows dated within [a, b]
Portee(a, b) ==
    {i \in 1..Len(traitements) :
        /\ traitements[i].date_traitement >= a
        /\ traitements[i].date_traitement <= b}

RECURSIVE TotalDe(_)
TotalDe(I) ==
    IF I = {} THEN 0
    ELSE LET i == CHOOSE x \in I : TRUE
         IN  traitements[i].dossiers_traites + TotalDe(I \ {i})

\* the scope of the last call
PorteeAppel ==
    IF appel.op = "jour" THEN Portee(appel.date_ref, appel.date_ref)
    ELSE IF appel.op \in {"semaine", "hebdo"}
    THEN {i \in 1..Len(traitements) :
             traitements[i].date_traitement \div 7 = appel.date_ref \div 7}
    ELSE IF appel.op = "30j"
    THEN Portee(appel.date_ref - 30, appel.date_ref)
    ELSE IF appel.op = "annee"
    THEN {i \in 1..Len(traitements) :
             /\ traitements[i].date_traitement >= PremierJanvier(appel.annee)
             /\ traitements[i].date_traitement
                  < PremierJanvier(appel.annee + 1)}
    ELSE 1..Len(traitements)

\* rows of the scope written by one archivist
PorteeDe(arch) == {i \in PorteeAppel : traitements[i].archiviste = arch}

\* distinct Monday-Friday dates of the scope logged by one archivist
JoursDe(arch) ==
    Cardinality({traitements[i].date_traitement : i \in
                   {j \in PorteeDe(arch) :
                       traitements[j].date_traitement % 7 \in 0..4}})

Objectif == parametres["objectif_journalier"]

SeuilPct == parametres["seuil_objectif"]

\* target of the view: 5 days for the weekly views
Cible == IF appel.op \in {"semaine", "hebdo"} THEN Objectif * 5 ELSE Objectif

\* v is n/d rounded to the nearest integer (either neighbour on a half)
Proche(v, n, d) ==
    /\ d > 0
    /\ 2 * (v * d - n) <= d
    /\ 2 * (n - v * d) <= d

VuesGlobales == {"jour", "semaine"}

VuesArchiviste == {"hebdo", "30j", "annee"}

Rendu == resultat.etat = "ok"

\* the rate field of a per-archivist record, in tenths
TauxLigne(r) == IF appel.op = "hebdo" THEN r.taux_hebdo ELSE r.taux_objectif

\* numerator and denominator of what a per-archivist view compares with the
\* threshold: the total (weekly), the daily average (30 days, year)
MesureN(arch) ==
    IF appel.op = "hebdo" THEN TotalDe(PorteeDe(arch))
    ELSE IF JoursDe(arch) > 0 THEN TotalDe(PorteeDe(arch)) ELSE 0

MesureD(arch) ==
    IF appel.op = "hebdo" THEN 1
    ELSE IF JoursDe(arch) > 0 THEN JoursDe(arch) ELSE 1

(***************************************************************************)
(* C1: calculer_kpis_globaux returns stock_restant equal to                *)
(* max(0, stock_initial - sum of dossiers_traites over all entries), and   *)
(* stock_restant is never negative however large the processed sum is.     *)
(***************************************************************************)
C1_StockRestant ==
    appel.op = "kpis" =>
        /\ Rendu
        /\ LET stock == parametres["stock_initial"]
               total == TotalDe(1..Len(traitements))
           IN  /\ resultat.valeur.stock_restant =
                     (IF stock - total > 0 THEN stock - total ELSE 0)
               /\ resultat.valeur.stock_restant >= 0

\* the processed sum exceeds the stock and the remaining stock is 0
C1_Witness ==
    /\ appel.op = "kpis"
    /\ Rendu
    /\ TotalDe(1..Len(traitements)) > parametres["stock_initial"]
    /\ parametres["stock_initial"] > 0
    /\ resultat.valeur.stock_restant = 0

(***************************************************************************)
(* C2: attainment rule of the global daily and weekly views.  With entries *)
(* in scope, total their sum, target = dailyTarget (daily) or              *)
(* dailyTarget * 5 (weekly, Monday-to-Sunday week of the reference date)   *)
(* and reachThreshold = target * fraction, the call returns a result with  *)
(* objectif_atteint = (total >= reachThreshold) and taux_realisation =     *)
(* (total / target) * 100 when attained, (total / reachThreshold) * 90     *)
(* otherwise, rounded to 2 decimals.  Checked over the parameters the      *)
(* configuration surface writes (positive target, fraction in [0.5, 1]).   *)
(***************************************************************************)
C2_RegleAtteinte ==
    appel.op \in VuesGlobales =>
        /\ Rendu
        /\ LET total == TotalDe(PorteeAppel)
               atteint == total * 100 >= Cible * SeuilPct
               r == resultat.valeur
           IN  /\ r.dossiers_traites = total
               /\ r.objectif_atteint = atteint
               /\ IF atteint
                  THEN Proche(r.taux_realisation, total * 10000, Cible)
                  ELSE Proche(r.taux_realisation, total * 900000,
                              Cible * SeuilPct)

\* target 200, fraction 0.9: a total of 150 is not attained and rated 75.0
C2_Witness ==
    /\ appel.op = "jour"
    /\ Rendu
    /\ Objectif = 200
    /\ SeuilPct = 90
    /\ TotalDe(PorteeAppel) = 150
    /\ resultat.valeur.objectif_atteint = FALSE
    /\ resultat.valeur.taux_realisation = 7500

(***************************************************************************)
(* C3: in every view, for every configured daily target and threshold      *)
(* fraction (the configuration surface offers fractions in [0.5, 1.0]), a  *)
(* total (a daily average in the averaged views) equal to reachThreshold   *)
(* exactly is reported with the rate 90.0.                                 *)
(***************************************************************************)
C3_SeuilDonne90 ==
    (Objectif > 0 /\ SeuilPct \in 50..100) =>
        /\ (appel.op \in VuesGlobales /\ PorteeAppel # {}
              /\ TotalDe(PorteeAppel) * 100 = Cible * SeuilPct)
             => (Rendu /\ resultat.valeur.taux_realisation = 9000)
        /\ (appel.op \in VuesArchiviste /\ PorteeAppel # {})
             => /\ Rendu
                /\ \A k \in 1..Len(resultat.valeur) :
                     LET r == resultat.valeur[k]
                     IN  MesureN(r.archiviste) * 100
                           = Cible * SeuilPct * MesureD(r.archiviste)
                         => TauxLigne(r) = 900

(***************************************************************************)
(* C4: in every view and for every stored threshold fraction (the engine   *)
(* does not clamp it), a total (or daily average) equal to the target      *)
(* exactly lies in the attained branch and is reported with rate 100.0.    *)
(* Stated for a positive target: a zero target has no 100% point.          *)
(***************************************************************************)
C4_CibleDonne100_Original ==
    Objectif > 0 =>
        /\ (appel.op \in VuesGlobales /\ PorteeAppel # {}
              /\ TotalDe(PorteeAppel) = Cible)
             => /\ Rendu
                /\ resultat.valeur.objectif_atteint
                /\ resultat.valeur.taux_realisation = 10000
        /\ (appel.op \in VuesArchiviste /\ PorteeAppel # {})
             => /\ Rendu
                /\ \A k \in 1..Len(resultat.valeur) :
                     LET r == resultat.valeur[k]
                     IN  MesureN(r.archiviste)
                           = Cible * MesureD(r.archiviste)
                         => /\ TauxLigne(r) = 1000
                            /\ r.statut \in {"Objectif atteint", "Excellent"}

\* C4 as amended: the same for a positive target and a stored fraction
\* of at most 1 (above 1 the target itself lies below the threshold).
C4_CibleDonne100 ==
    (Objectif > 0 /\ SeuilPct <= 100) => C4_CibleDonne100_Original

\* a daily total equal to the target, reported as attained at 100.0 ...
C4_Witness ==
    /\ appel.op = "jour"
    /\ Rendu
    /\ Objectif > 0
    /\ SeuilPct \in 1..100
    /\ PorteeAppel # {}
    /\ TotalDe(PorteeAppel) = Objectif
    /\ resultat.valeur.objectif_atteint
    /\ resultat.valeur.taux_realisation = 10000

(***************************************************************************)
(* C5: the rate scale is split at 90.  For every threshold fraction the    *)
(* configuration surface allows ([0.5, 1.0]) and every total, a result     *)
(* with objectif_atteint has rate >= 90 and a result without it has        *)
(* 0 <= rate < 90.                                                         *)
(***************************************************************************)
C5_EchelleCoupeeA90 ==
    (appel.op \in VuesGlobales /\ Rendu /\ Objectif > 0
       /\ SeuilPct \in 50..100) =>
        IF resultat.valeur.objectif_atteint
        THEN resultat.valeur.taux_realisation >= 9000
        ELSE /\ resultat.valeur.taux_realisation >= 0
             /\ resultat.valeur.taux_realisation < 9000

ToutesVues == VuesGlobales \cup VuesArchiviste

(***************************************************************************)
(* C6: zero-denominator guard.  In every view, when entries exist in scope *)
(* and the stored daily target is 0 or the stored threshold fraction is 0, *)
(* the computation completes without an arithmetic fault and reports a     *)
(* rate of 0; an archivist with 0 working days logged gets the daily       *)
(* average 0 and, in the views that rate the average, the rate 0.          *)
(***************************************************************************)
C6_GardeDenominateurNul ==
    (appel.op \in ToutesVues /\ PorteeAppel # {}) =>
        /\ (Objectif = 0 \/ SeuilPct = 0) =>
             /\ Rendu
             /\ appel.op \in VuesGlobales
                  => resultat.valeur.taux_realisation = 0
             /\ appel.op \in VuesArchiviste
                  => \A k \in 1..Len(resultat.valeur) :
                        TauxLigne(resultat.valeur[k]) = 0
        /\ (appel.op \in VuesArchiviste
              /\ \E i \in PorteeAppel :
                    JoursDe(traitements[i].archiviste) = 0) =>
             /\ Rendu
             /\ \A k \in 1..Len(resultat.valeur) :
                  LET r == resultat.valeur[k]
                  IN  JoursDe(r.archiviste) = 0 =>
                        /\ r.moyenne_jour = 0
                        /\ appel.op \in {"30j", "annee"}
                             => TauxLigne(r) = 0

C8_EcartSigne ==
    (appel.op = "jour" /\ Rendu /\ PorteeAppel # {}) =>
        /\ resultat.valeur.ecart * 100
             = TotalDe(PorteeAppel) * 100 - Objectif * SeuilPct
        /\ ~resultat.valeur.objectif_atteint => resultat.valeur.ecart < 0

(***************************************************************************)
(* C9: the list returned by each per-archivist variant (weekly, 30 days,   *)
(* year) is in descending order of rate: of two consecutive records the    *)
(* earlier has a rate >= the later.                                        *)
(***************************************************************************)
C9_ClassementDecroissant ==
    (appel.op \in VuesArchiviste /\ Rendu) =>
        \A k \in 1..(Len(resultat.valeur) - 1) :
            TauxLigne(resultat.valeur[k]) >= TauxLigne(resultat.valeur[k + 1])

(***************************************************************************)
(* C10: the status of every per-archivist record is a function of the      *)
(* reported rate alone: rate >= 100 the top tier (Objectif atteint,        *)
(* Excellent), 80 <= rate < 100 the near-target tier (Proche objectif,     *)
(* Correct), in the annual view 60 <= rate < 80 Moyen, anything below the  *)
(* lowest tier (En retard, Insuffisant).  Stated for the threshold         *)
(* fractions of the configuration surface, [0.5, 1.0].  (Status texts are  *)
(* kept without their leading emoji.)                                      *)
(***************************************************************************)
StatutHaut == IF appel.op = "annee" THEN "Excellent" ELSE "Objectif atteint"

StatutProche == IF appel.op = "annee" THEN "Correct" ELSE "Proche objectif"

StatutBas == IF appel.op = "annee" THEN "Insuffisant" ELSE "En retard"

C10_StatutSelonTaux_Original ==
    (appel.op \in VuesArchiviste /\ Rendu /\ SeuilPct \in 50..100) =>
        \A k \in 1..Len(resultat.valeur) :
            LET r == resultat.valeur[k]
                t == TauxLigne(r)
            IN  r.statut =
                  IF t >= 1000 THEN StatutHaut
                  ELSE IF t >= 800 THEN StatutProche
                  ELSE IF appel.op = "annee" /\ t >= 600 THEN "Moyen"
                  ELSE StatutBas

\* C10 as amended: the top tier goes to every record whose total (weekly)
\* or daily average (30 days, year) reaches the threshold, whatever its
\* rate; below the threshold the tier follows the rate before rounding:
\* >= 80 near-target, in the annual view >= 60 Moyen, else the lowest.
C10_StatutSelonTaux ==
    (appel.op \in VuesArchiviste /\ Rendu) =>
        \A k \in 1..Len(resultat.valeur) :
            LET r == resultat.valeur[k]
                n == MesureN(r.archiviste)
                d == MesureD(r.archiviste) * Cible * SeuilPct
            IN  r.statut =
                  IF n * 100 >= d THEN StatutHaut
                  ELSE IF n * 9000 >= 80 * d THEN StatutProche
                  ELSE IF appel.op = "annee" /\ n * 9000 >= 60 * d
                  THEN "Moyen"
                  ELSE StatutBas

\* a record in the top tier with a reported rate below 100, next to a
\* setting where a record below the threshold is near-target
C10_Witness ==
    /\ appel.op \in VuesArchiviste
    /\ Rendu
    /\ \E k \in 1..Len(resultat.valeur) :
          /\ resultat.valeur[k].statut = StatutHaut
          /\ TauxLigne(resultat.valeur[k]) < 1000
    /\ \E k \in 1..Len(resultat.valeur) :
          resultat.valeur[k].statut \in {StatutProche, StatutBas}

(***************************************************************************)
(* C11: in every per-archivist record, total_dossiers is the sum of the    *)
(* counts of all the entries of that archivist in scope (several entries   *)
(* on one date are all summed) and jours_travailles counts each distinct   *)
(* Monday-Friday date once however many entries it has; moyenne_jour is    *)
(* their quotient rounded to 1 decimal.                                    *)
(***************************************************************************)
C11_TotalEtJours ==
    (appel.op \in VuesArchiviste /\ Rendu) =>
        \A k \in 1..Len(resultat.valeur) :
            LET r == resultat.valeur[k]
                total == TotalDe(PorteeDe(r.archiviste))
                jours == JoursDe(r.archiviste)
            IN  /\ r.total_dossiers = total
                /\ r.jours_travailles = jours
                /\ jours > 0 => Proche(r.moyenne_jour, total * 10, jours)

\* two entries of one archivist on Monday 2025-01-06: both are summed and
\* the date counts once
C11_Witness ==
    /\ appel.op \in VuesArchiviste
    /\ Rendu
    /\ \E k \in 1..Len(resultat.valeur) :
          LET r == resultat.valeur[k]
          IN  /\ Cardinality(PorteeDe(r.archiviste)) = 2
              /\ \A i \in PorteeDe(r.archiviste) :
                    traitements[i].date_traitement = 371
              /\ r.total_dossiers
                    = traitements[1].dossiers_traites
                        + traitements[2].dossiers_traites
              /\ r.jours_travailles = 1
              /\ r.moyenne_jour = r.total_dossiers * 10

(***************************************************************************)
(* C12: in the 30-day and the annual per-archivist view, moyenne_jour is   *)
(* total / (number of distinct Monday-Friday dates the archivist logged in *)
(* scope) and the attainment rule is applied to that average with the      *)
(* daily target and the daily threshold, not scaled to the period:         *)
(* rate = (moyenne / target) * 100 if moyenne >= target * fraction, else   *)
(* (moyenne / (target * fraction)) * 90, rounded to 1 decimal.  (The       *)
(* average of an archivist without a Monday-Friday date is 0.)  Checked    *)
(* over the parameters the configuration surface writes.                   *)
(***************************************************************************)
C12_MoyenneEtTaux ==
    appel.op \in {"30j", "annee"} =>
        /\ Rendu
        /\ \A k \in 1..Len(resultat.valeur) :
             LET r == resultat.valeur[k]
                 n == MesureN(r.archiviste)
                 d == MesureD(r.archiviste)
                 atteint == n * 100 >= Objectif * SeuilPct * d
             IN  /\ Proche(r.moyenne_jour, n * 10, d)
                 /\ IF atteint
                    THEN Proche(r.taux_objectif, n * 1000, d * Objectif)
                    ELSE Proche(r.taux_objectif, n * 90000,
                                d * Objectif * SeuilPct)

\* 200 dossiers over two working dates, target 200 and fraction 0.9: the
\* average 100.0 is below 180 and rated (100 / 180) * 90 = 50.0
C12_Witness ==
    /\ appel.op = "30j"
    /\ Rendu
    /\ Objectif = 200
    /\ SeuilPct = 90
    /\ \E k \in 1..Len(resultat.valeur) :
          /\ resultat.valeur[k].total_dossiers = 200
          /\ resultat.valeur[k].jours_travailles = 2
          /\ resultat.valeur[k].moyenne_jour = 1000
          /\ resultat.valeur[k].taux_objectif = 500

(***************************************************************************)
(* C13: _calculer_jours_ouvres_annee(annee) terminates and returns exactly *)
(* the number of Monday-Friday dates from 1 January to 31 December of the  *)
(* year, a function of the year alone: the result is 260, 261 or 262, it   *)
(* is 261 for a non-leap year starting on a Monday and 262 for 2024.       *)
(***************************************************************************)
JoursOuvresAnneeRendu ==
    /\ appel.op = "jours_ouvres_annee"
    /\ Rendu

JoursOuvresAnneeJuste ==
    JoursOuvresAnneeRendu =>
        LET a == appel.annee
            v == resultat.valeur
        IN  /\ v = Cardinality({d \in PremierJanvier(a)..
                                      (PremierJanvier(a + 1) - 1) :
                                    d % 7 \in 0..4})
            /\ v = _calculer_jours_ouvres_annee(a)
            /\ v \in {260, 261, 262}
            /\ (~EstBissextile(a) /\ PremierJanvier(a) % 7 = 0) => v = 261
            /\ a = 2024 => v = 262

C13_JoursOuvresAnnee == []JoursOuvresAnneeJuste /\ <>JoursOuvresAnneeRendu

\* the call for 2024 has returned 262
C13_Witness ==
    /\ JoursOuvresAnneeRendu
    /\ appel.annee = 2024
    /\ appel.current = PremierJanvier(2025)
    /\ resultat.valeur = 262

(***************************************************************************)
(* C14: in the annual view couverture_annee is                             *)
(* (jours_travailles / working days of the year) * 100 rounded to 1        *)
(* decimal; it lies in [0, 100] for every archivist and is 100.0 exactly   *)
(* when the archivist logged an entry on every Monday-Friday date of the   *)
(* year.                                                                   *)
(***************************************************************************)
C14_CouvertureAnnee ==
    (appel.op = "annee" /\ Rendu) =>
        \A k \in 1..Len(resultat.valeur) :
            LET r == resultat.valeur[k]
                jours == JoursDe(r.archiviste)
                ouvres == Cardinality(
                            {d \in PremierJanvier(appel.annee)..
                                     (PremierJanvier(appel.annee + 1) - 1) :
                                d % 7 \in 0..4})
            IN  /\ r.jours_travailles = jours
                /\ Proche(r.couverture_annee, jours * 1000, ouvres)
                /\ r.couverture_annee >= 0
                /\ r.couverture_annee <= 1000
                /\ (r.couverture_annee = 1000) <=> (jours = ouvres)

\* an archivist with the 261 working days of 2025 at 100.0, next to one
\* with week-end entries only at 0.0
C14_Witness ==
    /\ appel.op = "annee"
    /\ appel.annee = 2025
    /\ Rendu
    /\ \E k \in 1..Len(resultat.valeur) :
          /\ resultat.valeur[k].jours_travailles = 261
          /\ resultat.valeur[k].couverture_annee = 1000
    /\ \E k \in 1..Len(resultat.valeur) :
          /\ resultat.valeur[k].jours_travailles = 0
          /\ resultat.valeur[k].couverture_annee = 0

(***************************************************************************)
(* C15: _jours_ouvres tolerates malformed input.  For every list of date   *)
(* texts the call returns without an error, each text that does not parse  *)
(* as YYYY-MM-DD is passed over, and the result is the number of distinct  *)
(* well-formed dates of the list that fall on Monday-Friday: a bad element *)
(* never changes what the good elements contribute.                        *)
(***************************************************************************)
\* the texts of the input domain that are dates on Monday-Friday
TextesOuvres == {TexteYMD(2025, 1, 6), TexteYMD(2025, 1, 7)}

C15_DatesMalFormees ==
    (appel.op = "_jours_ouvres" /\ resultat # AucunResultat) =>
        /\ Rendu
        /\ resultat.valeur =
              Cardinality({appel.dates_list[i] :
                             i \in {k \in 1..Len(appel.dates_list) :
                                      appel.dates_list[k] \in TextesOuvres}})

\* Monday twice and a 31 February between them: the result is 1
C15_Witness ==
    /\ appel.op = "_jours_ouvres"
    /\ Rendu
    /\ appel.dates_list = <<TexteYMD(2025, 1, 6), TexteYMD(2025, 2, 31),
                            TexteYMD(2025, 1, 6)>>
    /\ resultat.valeur = 1

(***************************************************************************)
(* C16: a missing configuration parameter never raises.  When the key      *)
(* objectif_journalier has no row the engine computes with the daily       *)
(* target 200, when seuil_objectif has no row with the fraction 0.9, when  *)
(* stock_initial has no row the KPI uses 0; a parameter that is present is *)
(* used as stored.                                                         *)
(***************************************************************************)
ObjectifUtilise == IF Objectif = NULL THEN 200 ELSE Objectif

SeuilUtilise == IF SeuilPct = NULL THEN 90 ELSE SeuilPct

StockUtilise ==
    IF parametres["stock_initial"] = NULL THEN 0
    ELSE parametres["stock_initial"]

\* target of the view under the parameters in use
CibleUtilisee ==
    IF appel.op \in {"semaine", "hebdo"} THEN ObjectifUtilise * 5
    ELSE ObjectifUtilise

C16_ParametresAbsents ==
    (appel.op \in ToutesVues \cup {"kpis"}) =>
        /\ Rendu
        /\ appel.op = "kpis" =>
              /\ resultat.valeur.stock_initial = StockUtilise
              /\ resultat.valeur.stock_restant =
                    Max(0, StockUtilise - TotalDe(1..Len(traitements)))
        /\ appel.op \in VuesGlobales =>
              /\ resultat.valeur.objectif = CibleUtilisee
              /\ resultat.valeur.seuil_reussite
                    = (CibleUtilisee * SeuilUtilise) \div 100
              /\ PorteeAppel # {} =>
                    resultat.valeur.objectif_atteint
                      = (TotalDe(PorteeAppel) * 100
                           >= CibleUtilisee * SeuilUtilise)
        /\ appel.op \in VuesArchiviste =>
              \A k \in 1..Len(resultat.valeur) :
                 LET r == resultat.valeur[k]
                 IN  /\ appel.op = "hebdo" =>
                           /\ r.objectif_hebdo = CibleUtilisee
                           /\ r.seuil_reussite
                                 = (CibleUtilisee * SeuilUtilise) \div 100
                     /\ appel.op # "hebdo" =>
                           r.seuil_journalier
                             = (CibleUtilisee * SeuilUtilise) \div 100
                     /\ (r.statut = StatutHaut) <=>
                           (MesureN(r.archiviste) * 100
                              >= CibleUtilisee * SeuilUtilise
                                   * MesureD(r.archiviste))

\* the three keys without a row: a day of 150 is not attained against the
\* threshold 180 of the defaults
C16_Witness ==
    /\ appel.op = "jour"
    /\ Rendu
    /\ Objectif = NULL
    /\ SeuilPct = NULL
    /\ parametres["stock_initial"] = NULL
    /\ TotalDe(PorteeAppel) = 150
    /\ resultat.valeur.objectif = 200
    /\ resultat.valeur.seuil_reussite = 180
    /\ resultat.valeur.objectif_atteint = FALSE
    /\ resultat.valeur.taux_realisation = 7500

(***************************************************************************)
(* C17: every operation of StatisticsCalculator (global KPIs, daily,       *)
(* weekly, per-archivist weekly, 30 days, year) leaves the record store    *)
(* unchanged: the entries, the parameters and the roster rows after the    *)
(* call are those before it, for any store contents.                       *)
(***************************************************************************)
OpsMoteur == ToutesVues \cup {"kpis"}

C17_MoteurSansEffet ==
    [][appel'.op \in OpsMoteur =>
          /\ traitements' = traitements
          /\ parametres' = parametres
          /\ archivistes' = archivistes]_vars

\* a call has returned on a store with entries, a key without a row and an
\* inactive roster row
C17_Witness ==
    /\ appel.op \in OpsMoteur
    /\ Rendu
    /\ Len(traitements) = MaxEntries
    /\ Objectif = NULL
    /\ \E a \in archivistes : ~a.actif

(***************************************************************************)
(* C18: per-archivist aggregation keys on the name stored on the entry,    *)
(* whatever the roster holds: the list has exactly one record for each     *)
(* distinct name among the entries in scope (names absent from the roster  *)
(* or inactive in it included) and no record for a roster member without   *)
(* an entry in scope.                                                      *)
(***************************************************************************)
NomsEnPortee == {traitements[i].archiviste : i \in PorteeAppel}

C18_CleNomLitteral ==
    (appel.op \in VuesArchiviste /\ Rendu) =>
        /\ Len(resultat.valeur) = Cardinality(NomsEnPortee)
        /\ {resultat.valeur[k].archiviste : k \in 1..Len(resultat.valeur)}
              = NomsEnPortee

\* a record for a name deleted from the roster and one for an inactive
\* name, none for the active members who logged nothing
C18_Witness ==
    /\ appel.op \in VuesArchiviste
    /\ Rendu
    /\ \E k \in 1..Len(resultat.valeur) :
          \A a \in archivistes : a.nom # resultat.valeur[k].archiviste
    /\ \E k \in 1..Len(resultat.valeur) :
          [nom |-> resultat.valeur[k].archiviste, actif |-> FALSE]
             \in archivistes
    /\ \E a \in archivistes :
          /\ a.actif
          /\ \A k \in 1..Len(resultat.valeur) :
                resultat.valeur[k].archiviste # a.nom

(***************************************************************************)
(* C19: calculer_kpis_globaux returns pourcentage_traite equal to          *)
(* (processed total / stock_initial) * 100 rounded to 2 decimals, and 0    *)
(* when stock_initial is 0, without a division fault; with no entry it     *)
(* returns dossiers_traites 0, stock_restant = stock_initial and           *)
(* pourcentage_traite 0.0.                                                 *)
(***************************************************************************)
C19_PourcentageTraite ==
    appel.op = "kpis" =>
        /\ Rendu
        /\ LET stock == parametres["stock_initial"]
               total == TotalDe(1..Len(traitements))
               r == resultat.valeur
           IN  /\ r.stock_initial = stock
               /\ r.dossiers_traites = total
               /\ IF stock = 0 THEN r.pourcentage_traite = 0
                  ELSE Proche(r.pourcentage_traite, total * 10000, stock)
               /\ Len(traitements) = 0 =>
                     /\ r.dossiers_traites = 0
                     /\ r.stock_restant = stock
                     /\ r.pourcentage_traite = 0

\* 100 dossiers of a stock of 150000: 0.07 per cent
C19_Witness ==
    /\ appel.op = "kpis"
    /\ Rendu
    /\ parametres["stock_initial"] = 150000
    /\ resultat.valeur.dossiers_traites = 100
    /\ resultat.valeur.pourcentage_traite = 7

(***************************************************************************)
(* C20: supprimer_archiviste removes only the roster row of that name:     *)
(* every entry, those carrying the deleted name included, is left as it    *)
(* was, as are the parameters and the other roster rows;                   *)
(* desactiver_archiviste likewise changes only the active flag of that     *)
(* row.                                                                    *)
(***************************************************************************)
C20_SuppressionSansCascade ==
    [][/\ appel'.op = "supprimer_archiviste" =>
            /\ traitements' = traitements
            /\ parametres' = parametres
            /\ archivistes' = {a \in archivistes : a.nom # appel'.nom}
       /\ appel'.op = "desactiver_archiviste" =>
            /\ traitements' = traitements
            /\ parametres' = parametres
            /\ {a.nom : a \in archivistes'} = {a.nom : a \in archivistes}
            /\ \A a \in archivistes :
                  IF a.nom = appel'.nom
                  THEN [a EXCEPT !.actif = FALSE] \in archivistes'
                  ELSE a \in archivistes']_vars

\* the row of a name is gone and the entries carrying the name are there
C20_Witness ==
    /\ appel.op = "supprimer_archiviste"
    /\ \A a \in archivistes : a.nom # appel.nom
    /\ \E i \in 1..Len(traitements) : traitements[i].archiviste = appel.nom
    /\ Cardinality(archivistes) = Cardinality(ARCHIVISTES_DEFAULT) - 1


(***************************************************************************)
(* The life of the store from an empty database file                       *)
(***************************************************************************)
\* the script starts on a database file without a row; nothing of
\* DatabaseManager can be called before its constructor has run
InitVierge ==
    /\ traitements = <<>>
    /\ sqlite_sequence = 0
    /\ parametres = [c \in Cles |-> SansLigne(c)]
    /\ archivistes = {}
    /\ appel = [op |-> "debut"]
    /\ resultat = AucunResultat

Construit == appel.op # "debut"

ValeursCle(c) ==
    IF c = "stock_initial" THEN StockValeurs
    ELSE IF c = "objectif_journalier" THEN ObjectifValeurs
    ELSE IF c = "seuil_objectif" THEN SeuilValeurs
    ELSE IF c = "mot_de_passe" THEN MotsDePasseAdmin
    ELSE MotsDePasseApp

MajParametre ==
    /\ Construit
    /\ \E c \in Cles : \E v \in ValeursCle(c) : mettre_a_jour_parametre(c, v)

SaisieApresInit == Construit /\ SaisieSamedi

ReinitialiserDonnees == Construit /\ reinitialiser_donnees

NextCycle ==
    \/ init_database
    \/ MajParametre
    \/ SaisieApresInit
    \/ ReinitialiserDonnees

SpecCycle == InitVierge /\ [][NextCycle]_vars

(***************************************************************************)
(* C21: the first initialisation gives the five keys their default values; *)
(* in every state reached afterwards by initialisations, configuration     *)
(* writes and data resets the five keys all have a row, and an             *)
(* initialisation that is not the first one changes no value of the table. *)
(***************************************************************************)
C21_CycleParametres ==
    /\ [](Construit => \A c \in Cles : parametres[c] # SansLigne(c))
    /\ [][~Construit => parametres' = init_default_params]_vars
    /\ [][(Construit /\ appel'.op = "init_database")
             => parametres' = parametres]_vars

\* an initialisation has run over a stock, a target and a password that
\* were updated, with an entry in the table
C21_Witness ==
    /\ appel.op = "init_database"
    /\ parametres["stock_initial"] = 100
    /\ parametres["objectif_journalier"] = 101
    /\ parametres["mot_de_passe"] = "ab"
    /\ traitements # <<>>

(***************************************************************************)
(* C22: a save from the parameters page is applied only when the new stock *)
(* and the new daily target are > 0 and both passwords have at least 3     *)
(* characters; otherwise an error is shown and no parameter changes.       *)
(* From the seeded defaults, stock_initial > 0, objectif_journalier > 0    *)
(* and both password lengths >= 3 hold in every state reached through the  *)
(* configuration surface.                                                  *)
(***************************************************************************)
ParametresValides ==
    /\ parametres["stock_initial"] > 0
    /\ parametres["objectif_journalier"] > 0
    /\ Len(parametres["mot_de_passe"]) >= 3
    /\ Len(parametres["mot_de_passe_app"]) >= 3

C22_ValidationParametres ==
    /\ []ParametresValides
    /\ [][appel'.op = "page_parametres" =>
             \/ /\ resultat'.etat = "st.error"
                /\ parametres' = parametres
             \/ /\ resultat'.etat = "st.success"
                /\ parametres'["stock_initial"] \in StockValeurs \ {0}
                /\ parametres'["objectif_journalier"] \in ObjectifValeurs \ {0}
                /\ parametres'["seuil_objectif"] \in SeuilCurseur
                /\ parametres'["mot_de_passe"] \in MotsDePasseAdmin \ {"ab"}
                /\ parametres'["mot_de_passe_app"] \in MotsDePasseApp \ {"ab"}]_vars

\* a save was refused over values saved before it
C22_Witness ==
    /\ appel.op = "page_parametres"
    /\ resultat.etat = "st.error"
    /\ parametres["stock_initial"] = 100
    /\ parametres["objectif_journalier"] = 101
    /\ parametres["seuil_objectif"] = 50

(***************************************************************************)
(* The roster emptied and built again                                      *)
(***************************************************************************)
\* a name the archivists page adds to the roster
NomsAjoutes == {"MOUSSA FALL"}

AjouterNouvelArchiviste == \E n \in NomsAjoutes : ajouter_archiviste(n)

\* the daily form on Monday 2025-01-06, for a default name or an added one
SaisieLundi ==
    \E a \in ({"AMINATA NDIAYE"} \cup NomsAjoutes) \cap obtenir_archivistes :
        ajouter_traitement(371, a, 50)

\* supprimer_archiviste for any row of the roster
SupprimerDuRegistre == \E a \in archivistes : supprimer_archiviste(a.nom)

NextRegistre ==
    \/ AjouterNouvelArchiviste
    \/ SaisieLundi
    \/ SupprimerDuRegistre
    \/ init_database

SpecRegistre == Init /\ [][NextRegistre]_vars

(***************************************************************************)
(* C23: after a roster reset the roster holds exactly the default names,   *)
(* all active, and the sentinel 'ARCHIVISTE INCONNU' as an inactive row if *)
(* and only if an entry was given to it; every entry then carries a        *)
(* default name or the sentinel, and no entry's date, count or identifier  *)
(* has changed.                                                            *)
(***************************************************************************)
C23_ReinitialisationRegistre ==
    [][(appel'.op = "init_database" /\ archivistes = {}) =>
          LET repris == {k \in 1..Len(traitements) :
                            traitements[k].archiviste \notin ARCHIVISTES_DEFAULT}
          IN  /\ {a.nom : a \in {b \in archivistes' : b.actif}}
                    = ARCHIVISTES_DEFAULT
              /\ {a \in archivistes' : ~a.actif}
                    = IF repris # {}
                      THEN {[nom |-> SENTINELLE, actif |-> FALSE]}
                      ELSE {}
              /\ Cardinality(archivistes')
                    = Cardinality(ARCHIVISTES_DEFAULT)
                        + (IF repris # {} THEN 1 ELSE 0)
              /\ Len(traitements') = Len(traitements)
              /\ \A k \in 1..Len(traitements) :
                    /\ traitements'[k].archiviste
                          \in ARCHIVISTES_DEFAULT \cup {SENTINELLE}
                    /\ k \notin repris =>
                          traitements'[k].archiviste = traitements[k].archiviste
                    /\ traitements'[k].id = traitements[k].id
                    /\ traitements'[k].date_traitement
                          = traitements[k].date_traitement
                    /\ traitements'[k].dossiers_traites
                          = traitements[k].dossiers_traites]_vars

\* the reset has run over an entry of a default name and an entry of an
\* added name
C23_Witness ==
    /\ appel.op = "init_database"
    /\ [nom |-> SENTINELLE, actif |-> FALSE] \in archivistes
    /\ Cardinality(archivistes) = Cardinality(ARCHIVISTES_DEFAULT) + 1
    /\ \E k, l \in 1..Len(traitements) :
          /\ traitements[k].archiviste = SENTINELLE
          /\ traitements[l].archiviste = "AMINATA NDIAYE"

(***************************************************************************)
(* The export                                                              *)
(***************************************************************************)
\* minutes of the clock at which an export is asked
Minutes == {"09:00", "09:01"}

ExportAnalyse == \E jour \in DatesRef, hm \in Minutes : export_analyse(jour, hm)

NextExport ==
    \/ AjouterTraitement
    \/ MajObjectif
    \/ DesactiverArchiviste
    \/ ExportAnalyse

SpecExport == Init /\ [][NextExport]_vars

(***************************************************************************)
(* C24: export_analyse is a function of the KPI result, the per-archivist  *)
(* list and the configuration values: two invocations given equal values   *)
(* of the three return the same report text.                               *)
(***************************************************************************)
C24_ExportFonctionPure ==
    [][(appel.op = "export_analyse" /\ appel'.op = "export_analyse"
          /\ appel' = appel)
         => resultat' = resultat]_vars

(***************************************************************************)
(* The entry operations of the application                                 *)
(***************************************************************************)
\* numbers typed in a number field
SaisiesNombre == {-5, 50}

\* periods of the period form: Friday 2025-01-03 to Monday 2025-01-06, a
\* week-end, an inverted pair
PeriodesCourtes == {<<368, 371>>, <<369, 370>>, <<371, 368>>}

\* totals typed in the period form
TotauxCourts == {-3, 3}

SaisieJournaliere ==
    \E d \in DatesSaisie, a \in Noms \cap obtenir_archivistes,
       n \in SaisiesNombre :
        formulaire_saisie_journalier(d, a, n)

SaisiePeriodeCourte ==
    \E p \in PeriodesCourtes, a \in Noms \cap obtenir_archivistes,
       n \in TotauxCourts :
        /\ Len(traitements) + Len(JoursOuvresPeriode(p[1], p[2])) <= MaxEntries
        /\ sqlite_sequence + Len(JoursOuvresPeriode(p[1], p[2])) <= MaxId
        /\ formulaire_saisie_periode(p[1], p[2], a, number_input(0, n))

ModifierSaisie ==
    \E d \in DatesSaisie, f \in BOOLEAN, k \in 1..Len(traitements),
       nd \in DatesRef, a \in Noms \cap obtenir_archivistes,
       n \in SaisiesNombre :
        formulaire_modification(d, f, k, nd, a, n)

ModifierSaisieCumul ==
    \E an \in AnneesRef, a \in Noms, k \in 1..Len(traitements),
       nd \in DatesRef, n \in SaisiesNombre :
        modifier_saisie_cumul(an, a, k, nd, n)

SupprimerSaisie ==
    \E d \in DatesSaisie, f \in BOOLEAN, k \in 1..Len(traitements) :
        supprimer_saisie(d, f, k)

SupprimerDate == \E d \in DatesSaisie : supprimer_date(d)

SupprimerSaisiesArchiviste ==
    \E a \in obtenir_tous_archivistes : supprimer_saisies_archiviste(a.nom)

NextSaisies ==
    \/ SaisieJournaliere
    \/ SaisiePeriodeCourte
    \/ ModifierSaisie
    \/ ModifierSaisieCumul
    \/ SupprimerSaisie
    \/ SupprimerDate
    \/ SupprimerSaisiesArchiviste
    \/ reinitialiser_donnees

SpecSaisies == Init /\ [][NextSaisies]_vars

(***************************************************************************)
(* C25  Whatever the entry operations done (daily add, period add, edit    *)
(* from the entry form, edit from the annual view, deletions, reset),      *)
(* every stored entry has dossiers_traites >= 0 and a date text that       *)
(* parses as a calendar date, the date it was given.                       *)
(***************************************************************************)
C25_SaisiesValides ==
    \A k \in 1..Len(traitements) :
        /\ traitements[k].dossiers_traites >= 0
        /\ strptime(strftime(traitements[k].date_traitement)).ok
        /\ strptime(strftime(traitements[k].date_traitement)).date
              = traitements[k].date_traitement

\* an edit in which a negative number was typed, on a table of two entries
\* with distinct ids, one of them given out after a deletion
C25_Witness ==
    /\ appel.op \in {"formulaire_modification", "modifier_saisie_cumul"}
    /\ appel.saisi < 0
    /\ Len(traitements) = 2
    /\ sqlite_sequence = 3
    /\ \E k \in 1..2 : traitements[k].id = appel.id
                          /\ traitements[k].dossiers_traites = 0


(***************************************************************************)
(* The weekly ranking around the threshold                                 *)
(***************************************************************************)
\* counts of an entry, one below and one at half the weekly target of 1000
ComptesSemaine == {499, 500}

\* the daily form on Monday 2025-01-06
SaisieSemaine ==
    \E a \in Noms \cap obtenir_archivistes, n \in ComptesSemaine :
        ajouter_traitement(371, a, n)

\* page_parametres saved with the slider moved and the rest left as it is
ReglerSeuil ==
    \E se \in SeuilCurseur :
        page_parametres(obtenir_parametre("stock_initial"),
                        obtenir_parametre("objectif_journalier"), se,
                        obtenir_parametre("mot_de_passe"),
                        obtenir_parametre("mot_de_passe_app"))

NextClassement ==
    \/ SaisieSemaine
    \/ ReglerSeuil
    \/ PerfHebdoArch
    \/ PerfJour

SpecClassement == Init /\ [][NextClassement]_vars

(***************************************************************************)
(* C26  For a fixed target and a threshold fraction in [0.5, 1.0] the rate *)
(* does not decrease when the total grows: of two records of the weekly    *)
(* list the one with the smaller total has the smaller or equal rate, and  *)
(* no record below the threshold stands before one that reached it.        *)
(***************************************************************************)
C26_TauxCroissant ==
    (appel.op = "hebdo" /\ Rendu /\ SeuilPct \in 50..100) =>
        \A i, j \in 1..Len(resultat.valeur) :
            /\ resultat.valeur[i].total_dossiers
                  <= resultat.valeur[j].total_dossiers
               => resultat.valeur[i].taux_hebdo <= resultat.valeur[j].taux_hebdo
            /\ i < j => ~ /\ resultat.valeur[i].statut # "Objectif atteint"
                          /\ resultat.valeur[j].statut = "Objectif atteint"


(***************************************************************************)
(* The period form                                                         *)
(***************************************************************************)
\* periods of the period form: Tuesday 2024-12-31 to Monday 2025-01-13 (10
\* working days), a week-end, an inverted pair, the Monday 2025-01-06 alone
PeriodesMoyennes == {<<365, 378>>, <<369, 370>>, <<378, 365>>, <<371, 371>>}

\* totals of the period form: nothing, fewer than the days, more than them
TotauxMoyens == {0, 7, 25}

SaisiePeriodeMoyenne ==
    \E p \in PeriodesMoyennes, a \in Noms \cap obtenir_archivistes,
       n \in TotauxMoyens :
        /\ Len(traitements) < MaxEntries
        /\ formulaire_saisie_periode(p[1], p[2], a, n)

NextPeriode ==
    \/ SaisieSamedi
    \/ SaisiePeriodeMoyenne

SpecPeriode == Init /\ [][NextPeriode]_vars

(***************************************************************************)
(* C27  The period form submitted for [start, end] and a total T >= 0:     *)
(* when start <= end and the range holds a working day, the rows already   *)
(* there stay and exactly one entry is created for each Monday-Friday date *)
(* of the range, none for a week-end date; the created counts sum to T,    *)
(* any two differ by at most 1 and an earlier date never has the smaller   *)
(* count.  When start > end or the range holds no working day, nothing is  *)
(* created and the table is unchanged.                                     *)
(***************************************************************************)
C27_SaisiePeriode ==
    [][appel'.op = "formulaire_saisie_periode" =>
          LET s == appel'.start_per
              e == appel'.end_per
              n == Len(traitements)
              crees == SubSeq(traitements', n + 1, Len(traitements'))
          IN  IF s > e \/ {d \in s..e : weekday(d) < 5} = {}
              THEN /\ traitements' = traitements
                   /\ resultat'.etat = "st.error"
              ELSE /\ SubSeq(traitements', 1, n) = traitements
                   /\ \A d \in s..e :
                         Cardinality({k \in 1..Len(crees) :
                                         crees[k].date_traitement = d})
                            = IF weekday(d) < 5 THEN 1 ELSE 0
                   /\ \A k \in 1..Len(crees) :
                         /\ crees[k].date_traitement \in s..e
                         /\ crees[k].archiviste = appel'.archiviste_sel2
                   /\ Dossiers(crees) = appel'.total_dossiers_per
                   /\ \A k, l \in 1..Len(crees) :
                         /\ crees[k].dossiers_traites
                               - crees[l].dossiers_traites <= 1
                         /\ crees[k].date_traitement < crees[l].date_traitement
                            => crees[k].dossiers_traites
                                  >= crees[l].dossiers_traites
    ]_vars

\* 25 dossiers spread over the 10 working days of a period that holds a
\* week-end, next to an entry that was there before: shares of 3 and of 2
C27_Witness ==
    /\ appel.op = "formulaire_saisie_periode"
    /\ appel.total_dossiers_per = 25
    /\ resultat.etat = "st.success"
    /\ Len(traitements) = 11
    /\ traitements[1].date_traitement = 369
    /\ traitements[2].dossiers_traites = 3
    /\ traitements[11].dossiers_traites = 2


(***************************************************************************)
(* The roster across restarts                                              *)
(***************************************************************************)
NextRedemarrages ==
    \/ AjouterNouvelArchiviste
    \/ SaisieLundi
    \/ DesactiverArchiviste
    \/ ReactiverArchiviste
    \/ SupprimerDuRegistre
    \/ init_database

SpecRedemarrages == Init /\ [][NextRedemarrages]_vars

\* every entry of the table keeps its archivist name in the step
NomsGardes ==
    \A k \in 1..Len(traitements) :
        traitements'[k].archiviste = traitements[k].archiviste

(***************************************************************************)
(* C28 as stated: over roster operations (add, deactivate, reactivate,     *)
(* hard delete, of every archivist too) and restarts, every entry keeps    *)
(* the archivist name it was saved with, and a restart leaves entries and  *)
(* roster unchanged.                                                       *)
(***************************************************************************)
C28_NomsConserves_Original ==
    [][/\ NomsGardes
       /\ appel'.op = "init_database"
          => traitements' = traitements /\ archivistes' = archivistes]_vars

(***************************************************************************)
(* C28 as amended: every entry keeps its archivist name over roster        *)
(* operations, and a restart that finds a row in the roster leaves entries *)
(* and roster unchanged; a restart that finds the roster empty gives the   *)
(* entries of a name that is not a default name to the sentinel and keeps  *)
(* the name of the others.                                                 *)
(***************************************************************************)
C28_NomsConserves ==
    [][/\ appel'.op # "init_database" => NomsGardes
       /\ (appel'.op = "init_database" /\ archivistes # {})
          => traitements' = traitements /\ archivistes' = archivistes
       /\ (appel'.op = "init_database" /\ archivistes = {})
          => \A k \in 1..Len(traitements) :
                traitements'[k].archiviste =
                   IF traitements[k].archiviste \in ARCHIVISTES_DEFAULT
                   THEN traitements[k].archiviste ELSE SENTINELLE]_vars

\* after a restart, an entry still carries the name of an archivist who was
\* added, then hard-deleted, while another was deactivated
C28_Witness ==
    /\ appel.op = "init_database"
    /\ \E k \in 1..Len(traitements) :
          /\ traitements[k].archiviste \in NomsAjoutes
          /\ \A a \in archivistes : a.nom # traitements[k].archiviste
    /\ \E a \in archivistes : ~a.actif


(***************************************************************************)
(* C29  The two weekly views agree: when                                   *)
(* calculer_performances_hebdomadaires and                                 *)
(* obtenir_performances_hebdo_par_archiviste are called one after the      *)
(* other for the same date and both return, the total_dossiers of the      *)
(* records sum to dossiers_traites, the records are those of the names     *)
(* that have an entry from the Monday to the Sunday of the week of the     *)
(* date, the window the global view reports, and every record carries the  *)
(* weekly target (daily target * 5) and the threshold of the global view.  *)
(***************************************************************************)
C29_VuesHebdoCoherentes ==
    [][(/\ appel.op \in {"semaine", "hebdo"}
        /\ appel'.op \in {"semaine", "hebdo"}
        /\ appel.op # appel'.op
        /\ appel.date_ref = appel'.date_ref
        /\ resultat.etat = "ok"
        /\ resultat'.etat = "ok") =>
          LET globale == IF appel.op = "semaine" THEN resultat.valeur
                         ELSE resultat'.valeur
              liste == IF appel.op = "hebdo" THEN resultat.valeur
                       ELSE resultat'.valeur
              lundi == appel.date_ref - (appel.date_ref % 7)
              fenetre == {i \in 1..Len(traitements) :
                             traitements[i].date_traitement
                                \in lundi..(lundi + 6)}
          IN  /\ Somme([k \in 1..Len(liste) |-> liste[k].total_dossiers])
                    = globale.dossiers_traites
              /\ globale.semaine = <<lundi, lundi + 6>>
              /\ {liste[k].archiviste : k \in 1..Len(liste)}
                    = {traitements[i].archiviste : i \in fenetre}
              /\ globale.objectif = ObjectifUtilise * 5
              /\ \A k \in 1..Len(liste) :
                    /\ liste[k].objectif_hebdo = globale.objectif
                    /\ liste[k].seuil_reussite = globale.seuil_reussite
    ]_vars

\* the list of the week of 2025-01-06 for a table that also holds an entry
\* of the week before: one record, of the entry of the Monday alone
C29_Witness ==
    /\ appel.op = "hebdo"
    /\ appel.date_ref = 371
    /\ Rendu
    /\ Len(traitements) = 2
    /\ Len(resultat.valeur) = 1
    /\ resultat.valeur[1].total_dossiers = 150
    /\ \E i \in 1..2 : traitements[i].date_traitement = 369


(***************************************************************************)
(* The pages with a confirmation box                                       *)
(***************************************************************************)
EvenementsArchivistes ==
    {"Ajouter archiviste", "Désactiver archiviste", "Réactiver archiviste",
     "Supprimer définitivement", "Confirmer la suppression"}

EvenementsSidebar ==
    {"Mot de passe admin", "Réinitialiser toutes les données",
     "Confirmer la réinitialisation"}

\* texts typed in the field "Nom complet"
NomsSaisis == {"  ", " moussa fall", "KANI TOURE"}

\* texts typed in the field "Mot de passe admin"
MotsDePasseSaisis == {"", "ab", "archives2025"}

PageArchivistes ==
    \E ev \in EvenementsArchivistes, n \in Noms \cup NomsAjoutes,
       t \in NomsSaisis :
        page_archivistes(ev, n, t)

SidebarAuthentication ==
    \E ev \in EvenementsSidebar, pwd \in MotsDePasseSaisis :
        sidebar_authentication(ev, pwd)

NextConfirmation ==
    \/ SaisieLundi
    \/ PageArchivistes
    \/ SidebarAuthentication

SpecConfirmation == Init /\ [][NextConfirmation]_vars

(***************************************************************************)
(* C30  Hard delete is achievable from the archivist page: once the user   *)
(* has clicked "Supprimer définitivement" and then ticked the confirmation *)
(* box, the run that the tick causes has called supprimer_archiviste and   *)
(* the selected archivist is no longer in the roster; in the same way,     *)
(* once the administrator has clicked "Réinitialiser toutes les données"   *)
(* and ticked its confirmation, the table of entries is empty.             *)
(***************************************************************************)
C30_SuppressionAtteignable ==
    /\ (appel.op = "page_archivistes"
        /\ appel.evenement = "Confirmer la suppression")
       => \A a \in archivistes : a.nom # appel.choix_arch
    /\ (appel.op = "sidebar_authentication"
        /\ appel.evenement = "Confirmer la réinitialisation")
       => traitements = <<>>

=============================================================================
